---- MODULE Spec2Model ----
(***************************************************************************)
(* Verification model of repulsive-surfaces: the line search of            *)
(* SurfaceFlow, the 6D bounding volume hierarchy, and the block cluster    *)
(* tree with its percolated matrix-vector product.                         *)
(*                                                                         *)
(* Arithmetic is exact integer arithmetic.  Real quantities are stored as  *)
(* scaled integers; every scaling is stated where it is introduced.        *)
(***************************************************************************)
EXTENDS Integers, Sequences, FiniteSets, TLC

\* ------------------------------------------------------------------------
\* Generic helpers
\* ------------------------------------------------------------------------

RECURSIVE Pow2(_)
Pow2(n) == IF n <= 0 THEN 1 ELSE 2 * Pow2(n - 1)

RECURSIVE SumSeq(_)
SumSeq(s) == IF s = <<>> THEN 0 ELSE Head(s) + SumSeq(Tail(s))

Range(s) == {s[i] : i \in DOMAIN s}

Abs(x) == IF x < 0 THEN -x ELSE x

\* ========================================================================
\* Part 1.  SurfaceFlow::LineSearchStep            (src/src/surface_flow.cpp)
\* ========================================================================

\* Largest initial step, in multiples of LS_STEP_THRESHOLD.
MaxInitGuess == 4
\* Energies returned by energy->Value() are drawn from 0..MaxEnergy.
MaxEnergy == 3
\* Number of mesh vertices in the line-search model.
NumVertices == 2
\* Cap on numBacktracks (an int in the code); never reached by the loop,
\* which needs at most MaxInitGuess halvings.
MaxBacktracks == 8

\* A step size delta is stored as the integer delta * DeltaDen / 1e-10, so
\* that halving is exact for every step the loop can reach from an initial
\* guess of at most MaxInitGuess thresholds (floating-point halving is exact).
DeltaDen == Pow2(MaxInitGuess)

\* const double LS_STEP_THRESHOLD = 1e-10, in delta units.
LS_STEP_THRESHOLD == DeltaDen

\* double sigma = 0.01, as the fraction SigmaNum / SigmaDen.
SigmaNum == 1
SigmaDen == 100

Vertices == 1 .. NumVertices

\* Gradients the caller may pass (rows of an nVertices x 3 matrix, integer
\* entries).  The first one is the zero gradient (norm below 1e-10).
Gradients ==
    { [v \in Vertices |-> <<0, 0, 0>>],
      [v \in Vertices |-> IF v = 1 THEN <<1, 0, 0>> ELSE <<0, 0, 0>>],
      [v \in Vertices |-> IF v = 1 THEN <<1, 0, 0>> ELSE <<0, -1, 1>>],
      [v \in Vertices |-> <<-1, 1, 0>>] }

\* Values of the gradDot argument the caller may pass.
GradDots == {-50, -1, 0, 1, 50}

\* Initial guesses: 0 .. MaxInitGuess thresholds.
InitGuesses == {g * DeltaDen : g \in 0 .. MaxInitGuess}

\* Vertex positions at entry, in units of 1e-10 / DeltaDen.
EntryPositions == [v \in Vertices |-> <<v * 8 * DeltaDen, 0, -v>>]

VARIABLES
    positions,      \* geom->inputVertexPositions
    origPositions,  \* SurfaceFlow::origPositions (row ind_v per vertex)
    gradient,       \* argument gradient
    initGuess,      \* argument initGuess
    gradDot,        \* argument gradDot
    delta,          \* local delta
    initialEnergy,  \* local initialEnergy
    nextEnergy,     \* local nextEnergy
    numBacktracks,  \* local numBacktracks
    retval,         \* value returned by LineSearchStep
    lsPc,           \* position inside LineSearchStep
    energyOf,       \* the energy landscape seen so far: positions -> value
    trials,         \* history of the trials: <<delta, energy, rejected>>
    mesh,           \* the face bodies, verts[elementID] (1-based: id + 1)
    sepCoeff,       \* BlockClusterTree::separationCoeff, a fraction <<p, q>>
    nodes,          \* the BVH: node address -> node record
    bctPc,          \* position in Create6DBVHFromMesh / the BCT constructor
    unresolvedPairs,
    admissiblePairs,
    inadmissiblePairs,
    admissibleByCluster,
    Af_1,
    mulIn,          \* the vectors multiplied so far
    mulOut,         \* the products, mulOut[k] = A * mulIn[k]
    parPc,          \* position in MultiplyAfPercolated run step by step
    remaining,      \* iterations of the parallel loop not yet started
    thr,            \* per thread: iteration, position in its bucket, phase
    dataB,          \* treeContainer: data.B by nodeID
    dataWtDot,      \* treeContainer: data.wtDot by nodeID
    accesses,       \* accesses made inside the loop: <<i, field, nodeID, kind>>
    stepPc,         \* position in a product y = A v run step by step
    stepV,          \* the argument v (v_hat)
    stepB,          \* the output vector b (b_hat)
    bAtEntry,       \* b_hat when MultiplyInadmissible was entered
    inRemaining,    \* iterations of the `omp for` not yet started
    priv,           \* per thread: its private `result`
    merged,         \* threads that have left the critical section
    lockHolder,     \* the thread inside the critical section, 0 if none
    dfPc,           \* position in AllPairsTPEnergy::Differential
    dfFaces,        \* kernel->mesh: the faces, each by its adjacentVertices()
    dfF1,           \* position of the outer loop over the faces
    dfF2,           \* position of the inner loop over the faces
    dfOutput,       \* the argument output, by row
    dfEntry,        \* output when Differential was entered
    dfLog,          \* the additions made to output: <<f1, f2, vertex>>
    delPc,          \* position in remeshing::fixDelaunay
    delPos,         \* geometry->inputVertexPositions
    delEnds,        \* mesh: the end vertices of every edge
    toCheck,        \* local toCheck
    inQueue,        \* local inQueue
    flipCnt         \* local flipCnt

lsVars == <<positions, origPositions, gradient, initGuess, gradDot, delta,
            initialEnergy, nextEnergy, numBacktracks, retval, lsPc, energyOf,
            trials>>

bctVars == <<mesh, sepCoeff, nodes, bctPc, unresolvedPairs, admissiblePairs,
             inadmissiblePairs, admissibleByCluster, Af_1>>

mulVars == <<mulIn, mulOut>>

parVars == <<parPc, remaining, thr, dataB, dataWtDot, accesses>>

stepVars == <<stepPc, stepV, stepB, bAtEntry, inRemaining, priv, merged, lockHolder>>

diffVars == <<dfPc, dfFaces, dfF1, dfF2, dfOutput, dfEntry, dfLog>>

delVars == <<delPc, delPos, delEnds, toCheck, inQueue, flipCnt>>

vars == <<lsVars, bctVars, mulVars, parVars, stepVars, diffVars, delVars>>

\* surface::VertexData<size_t> indices = mesh->getVertexIndices()
VertexIndex(v) == v

\* Row i of a matrix as a Vector3.
GetRow(A, i) == <<A[i][1], A[i][2], A[i][3]>>

\* gradient.norm() squared (Frobenius).
GradNormSq(g) == SumSeq([v \in Vertices |->
                     g[v][1] * g[v][1] + g[v][2] * g[v][2] + g[v][3] * g[v][3]])

\* a < b * sqrt(ss), for integers a, b and ss >= 0, decided on the squares.
LessThanTimesSqrt(a, b, ss) ==
    IF a < 0
      THEN IF b >= 0 THEN TRUE
                     ELSE a * a > b * b * ss
      ELSE IF b <= 0 THEN FALSE
                     ELSE a * a < b * b * ss

\* SaveCurrentPositions: origPositions(ind_v, :) = inputVertexPositions[v].
SaveCurrentPositions(pos) ==
    [i \in {VertexIndex(v) : v \in Vertices} |->
        LET v == CHOOSE w \in Vertices : VertexIndex(w) = i
        IN  <<pos[v][1], pos[v][2], pos[v][3]>>]

\* RestorePositions reading the row of another vertex.
RestorePositions_WrongRow(orig) ==
    [v \in Vertices |-> GetRow(orig, VertexIndex(NumVertices + 1 - v))]

\* RestorePositions: inputVertexPositions[v] = GetRow(origPositions, ind_v).
RestorePositions(orig) ==
    [v \in Vertices |-> GetRow(orig, VertexIndex(v))]

\* SetGradientStep with pos_v read from inputVertexPositions[v].
SetGradientStep_FromCurrent(orig, grad, d) ==
    [v \in Vertices |->
        LET pos_v  == positions[v]
            grad_v == GetRow(grad, VertexIndex(v))
        IN  <<pos_v[1] - d * grad_v[1],
              pos_v[2] - d * grad_v[2],
              pos_v[3] - d * grad_v[3]>>]

\* SetGradientStep: inputVertexPositions[v] = pos_v - delta * grad_v, with
\* pos_v read from origPositions.
SetGradientStep(orig, grad, d) ==
    [v \in Vertices |->
        LET pos_v  == GetRow(orig, VertexIndex(v))
            grad_v == GetRow(grad, VertexIndex(v))
        IN  <<pos_v[1] - d * grad_v[1],
              pos_v[2] - d * grad_v[2],
              pos_v[3] - d * grad_v[3]>>]

\* The Armijo test with the decrease taken with the wrong sign.
ArmijoFails_SignFlipped(E0, E1, d, gNormSq, gDot) ==
    LessThanTimesSqrt(SigmaDen * DeltaDen * (E1 - E0), SigmaNum * d * gDot, gNormSq)

\* decrease < targetDecrease, with targetDecrease = sigma*delta*gradNorm*gradDot.
\* Energies are integers; delta carries the denominator DeltaDen.
ArmijoFails(E0, E1, d, gNormSq, gDot) ==
    LessThanTimesSqrt(SigmaDen * DeltaDen * (E0 - E1), SigmaNum * d * gDot, gNormSq)

\* A rejected trial that keeps delta as it is.
Backtrack_NoHalving(d) == d

\* The delta a rejected trial continues with (delta /= 2).
Backtrack(d) == d \div 2

LSStart ==
    /\ positions = EntryPositions
    /\ origPositions = [i \in Vertices |-> <<0, 0, 0>>]
    /\ gradient \in Gradients
    /\ initGuess \in InitGuesses
    /\ gradDot \in GradDots
    /\ delta = 0
    /\ initialEnergy = 0
    /\ nextEnergy = 0
    /\ numBacktracks = 0
    /\ retval = -1
    /\ lsPc = "call"
    /\ energyOf = <<>>
    /\ trials = <<>>

\* energy->Value() at positions p: a value of the landscape, the same value
\* whenever the same positions are evaluated again.
EnergyValues(p) ==
    IF \E i \in DOMAIN energyOf : energyOf[i][1] = p
      THEN {energyOf[i][2] : i \in {j \in DOMAIN energyOf : energyOf[j][1] = p}}
      ELSE 0 .. MaxEnergy

Remember(p, e) ==
    IF \E i \in DOMAIN energyOf : energyOf[i][1] = p
      THEN energyOf
      ELSE Append(energyOf, <<p, e>>)

\* Lines 105-119: snapshot, initial energy, gradient norm test.
LS_Enter ==
    /\ UNCHANGED <<bctVars, mulVars, parVars, stepVars, diffVars, delVars>>
    /\ lsPc = "call"
    /\ delta' = initGuess
    /\ origPositions' = SaveCurrentPositions(positions)
    /\ \E e \in EnergyValues(positions) :
          /\ initialEnergy' = e
          /\ nextEnergy' = e
          /\ energyOf' = Remember(positions, e)
    /\ numBacktracks' = 0
    /\ IF GradNormSq(gradient) = 0
         THEN lsPc' = "done" /\ retval' = 0
         ELSE lsPc' = "loop" /\ retval' = retval
    /\ UNCHANGED <<positions, gradient, initGuess, gradDot, trials>>

\* Lines 121-139: one iteration of the while loop.
LS_Trial ==
    /\ UNCHANGED <<bctVars, mulVars, parVars, stepVars, diffVars, delVars>>
    /\ lsPc = "loop"
    /\ delta > LS_STEP_THRESHOLD
    /\ numBacktracks < MaxBacktracks
    /\ LET p == SetGradientStep(origPositions, gradient, delta)
       IN  /\ positions' = p
           /\ \E e \in EnergyValues(p) :
                 /\ nextEnergy' = e
                 /\ energyOf' = Remember(p, e)
                 /\ IF ArmijoFails(initialEnergy, e, delta, GradNormSq(gradient), gradDot)
                      THEN /\ delta' = Backtrack(delta)
                           /\ numBacktracks' = numBacktracks + 1
                           /\ lsPc' = "loop"
                           /\ trials' = Append(trials, <<delta, e, TRUE>>)
                      ELSE /\ delta' = delta
                           /\ numBacktracks' = numBacktracks
                           /\ lsPc' = "after"
                           /\ trials' = Append(trials, <<delta, e, FALSE>>)
    /\ UNCHANGED <<origPositions, gradient, initGuess, gradDot, initialEnergy, retval>>

\* Line 121: the loop condition fails.
LS_LoopExit ==
    /\ UNCHANGED <<bctVars, mulVars, parVars, stepVars, diffVars, delVars>>
    /\ lsPc = "loop"
    /\ ~(delta > LS_STEP_THRESHOLD)
    /\ lsPc' = "after"
    /\ UNCHANGED <<positions, origPositions, gradient, initGuess, gradDot, delta,
                   initialEnergy, nextEnergy, numBacktracks, retval, energyOf, trials>>

\* Lines 141-152: restore and return 0, or return delta.
LS_Return ==
    /\ UNCHANGED <<bctVars, mulVars, parVars, stepVars, diffVars, delVars>>
    /\ lsPc = "after"
    /\ IF delta <= LS_STEP_THRESHOLD
         THEN /\ positions' = RestorePositions(origPositions)
              /\ retval' = 0
         ELSE /\ positions' = positions
              /\ retval' = delta
    /\ lsPc' = "done"
    /\ UNCHANGED <<origPositions, gradient, initGuess, gradDot, delta,
                   initialEnergy, nextEnergy, numBacktracks, energyOf, trials>>

LSNext == LS_Enter \/ LS_Trial \/ LS_LoopExit \/ LS_Return

\* ========================================================================
\* Part 2.  BVHNode6D                            (src/src/spatial/bvh_6d.cpp)
\* ========================================================================
\* A body is [mass, point, normal, elementID]; points and normals are integer
\* 3-vectors.  A tree is a function from node addresses to node records; the
\* address of a node is its path from the root (<<>>), child i of the node at
\* path p being at Append(p, i).  centerOfMass is the rational
\* comNum / totalMass and splitPoint is the rational splitPoint2 / 2.
\* averageNormal is not modelled.

\* Recursion depth at which an unfinished construction is cut.
MaxDepth == 12

\* What the unassigned minCoords and maxCoords of an Empty node may hold, as
\* <<min, max>> (each the same in its three components): zeroed memory, a box
\* around the mesh, an inverted box.
GarbageBoxes == {<<0, 0>>, <<-9, 9>>, <<9, -9>>}

Vec3(x) == <<x, x, x>>

Body(m, pt, nrm, id) == [mass |-> m, point |-> pt, normal |-> nrm, elementID |-> id]

\* inline int NextAxis(int axis)
NextAxis(axis) ==
    CASE axis = 0 -> 1
      [] axis = 1 -> 2
      [] axis = 2 -> 0
      [] OTHER    -> 0

\* inline double GetCoordFromBody(MassNormalPoint &mp, int axis)
GetCoordFromBody(mp, axis) ==
    CASE axis = 0 -> mp.point[1]
      [] axis = 1 -> mp.point[2]
      [] axis = 2 -> mp.point[3]
      [] axis = 3 -> mp.normal[1]
      [] axis = 4 -> mp.normal[2]
      [] axis = 5 -> mp.normal[3]

\* std::sort(coords.begin(), coords.end())
RECURSIVE Insert(_, _)
Insert(x, s) ==
    IF s = <<>> THEN <<x>>
    ELSE IF x <= Head(s) THEN <<x>> \o s
    ELSE <<Head(s)>> \o Insert(x, Tail(s))

RECURSIVE SortCoords(_)
SortCoords(s) == IF s = <<>> THEN <<>> ELSE Insert(Head(s), SortCoords(Tail(s)))

\* The loop of AxisSplittingPlane over i = 0 .. nPoints-1 on the sorted
\* coords (1-based here): the first index with the least width1^2 + width2^2.
\* best = -1 stands for the initial splitIndex, bestVal = -1 for INFINITY.
RECURSIVE SplitIndexFrom(_, _, _, _)
\* The loop with `sumSquares <= minWidths`: the last index with the least
\* sum.
SplitIndexFrom_LastLeast(coords, i, best, bestVal) ==
    IF i > Len(coords) THEN best
    ELSE LET n == Len(coords)
             width1 == coords[i] - coords[1]
             width2 == IF i = n THEN 0 ELSE coords[n] - coords[i + 1]
             sumSquares == width1 * width1 + width2 * width2
         IN  IF bestVal = -1 \/ sumSquares <= bestVal
               THEN SplitIndexFrom(coords, i + 1, i, sumSquares)
               ELSE SplitIndexFrom(coords, i + 1, best, bestVal)

SplitIndexFrom(coords, i, best, bestVal) ==
    IF i > Len(coords) THEN best
    ELSE LET n == Len(coords)
             width1 == coords[i] - coords[1]
             width2 == IF i = n THEN 0 ELSE coords[n] - coords[i + 1]
             sumSquares == width1 * width1 + width2 * width2
         IN  IF bestVal = -1 \/ sumSquares < bestVal
               THEN SplitIndexFrom(coords, i + 1, i, sumSquares)
               ELSE SplitIndexFrom(coords, i + 1, best, bestVal)

SplitIndex(coords) == SplitIndexFrom(coords, 1, -1, -1)

\* double BVHNode6D::AxisSplittingPlane: twice the split point,
\* coords[splitIndex] + coords[splitIndex + 1].  A read past the end of
\* coords is marked by the value "out of bounds".
AxisSplittingPlane2(points, axis) ==
    LET coords == SortCoords([i \in DOMAIN points |-> GetCoordFromBody(points[i], axis)])
        k == SplitIndex(coords)
    IN  IF k >= 1 /\ k + 1 <= Len(coords)
          THEN coords[k] + coords[k + 1]
          ELSE "out of bounds"

VecAdd(a, b) == <<a[1] + b[1], a[2] + b[2], a[3] + b[3]>>
VecScale(k, a) == <<k * a[1], k * a[2], k * a[3]>>
Min2(a, b) == IF a <= b THEN a ELSE b
Max2(a, b) == IF a >= b THEN a ELSE b
\* vectorMin returning its second argument.
vectorMin_SecondArgument(a, b) == b

\* helpers.h vectorMin / vectorMax
vectorMin(a, b) == <<Min2(a[1], b[1]), Min2(a[2], b[2]), Min2(a[3], b[3])>>
vectorMax(a, b) == <<Max2(a[1], b[1]), Max2(a[2], b[2]), Max2(a[3], b[3])>>

\* Constructor, points.size() == 0.  g = <<gmin, gmax>> is what the
\* unassigned minCoords and maxCoords hold.
EmptyNode(axis, g) ==
    [nodeType |-> "Empty", splitAxis |-> axis, splitPoint2 |-> 0,
     elementID |-> -1, totalMass |-> 0, comNum |-> <<0, 0, 0>>,
     minCoords |-> Vec3(g[1]), maxCoords |-> Vec3(g[2]),
     numNodesInBranch |-> 1, nChildren |-> 0, nodeID |-> -1]

\* The leaf constructor storing element 0 instead of mp.elementID.
LeafNode_FirstElement(mp, axis) ==
    [nodeType |-> "Leaf", splitAxis |-> axis, splitPoint2 |-> 0,
     elementID |-> 0, totalMass |-> mp.mass,
     comNum |-> VecScale(mp.mass, mp.point),
     minCoords |-> mp.point, maxCoords |-> mp.point,
     numNodesInBranch |-> 1, nChildren |-> 0, nodeID |-> -1]

\* Constructor, points.size() == 1.
LeafNode(mp, axis) ==
    [nodeType |-> "Leaf", splitAxis |-> axis, splitPoint2 |-> 0,
     elementID |-> mp.elementID, totalMass |-> mp.mass,
     comNum |-> VecScale(mp.mass, mp.point),
     minCoords |-> mp.point, maxCoords |-> mp.point,
     numNodesInBranch |-> 1, nChildren |-> 0, nodeID |-> -1]

\* A constructor call still open when the recursion is cut at MaxDepth.
UnfinishedNode(axis) ==
    [nodeType |-> "Unfinished", splitAxis |-> axis, splitPoint2 |-> 0,
     elementID |-> -1, totalMass |-> 0, comNum |-> <<0, 0, 0>>,
     minCoords |-> <<0, 0, 0>>, maxCoords |-> <<0, 0, 0>>,
     numNodesInBranch |-> 1, nChildren |-> 0, nodeID |-> -1]

\* averageDataFromChildren with `totalMass = child->totalMass` in the loop.
InteriorNode_MassOverwritten(axis, sp2, lesserNode, greaterNode) ==
    [nodeType |-> "Interior", splitAxis |-> axis, splitPoint2 |-> sp2,
     elementID |-> -1,
     totalMass |-> greaterNode.totalMass,
     comNum |-> VecAdd(lesserNode.comNum, greaterNode.comNum),
     minCoords |-> vectorMin(vectorMin(lesserNode.minCoords, lesserNode.minCoords),
                             greaterNode.minCoords),
     maxCoords |-> vectorMax(vectorMax(lesserNode.maxCoords, lesserNode.maxCoords),
                             greaterNode.maxCoords),
     numNodesInBranch |-> lesserNode.numNodesInBranch + greaterNode.numNodesInBranch + 1,
     nChildren |-> 2, nodeID |-> -1]

\* Constructor, interior case after both children are built: children,
\* numNodesInBranch and averageDataFromChildren().
InteriorNode(axis, sp2, lesserNode, greaterNode) ==
    [nodeType |-> "Interior", splitAxis |-> axis, splitPoint2 |-> sp2,
     elementID |-> -1,
     totalMass |-> lesserNode.totalMass + greaterNode.totalMass,
     comNum |-> VecAdd(lesserNode.comNum, greaterNode.comNum),
     minCoords |-> vectorMin(vectorMin(lesserNode.minCoords, lesserNode.minCoords),
                             greaterNode.minCoords),
     maxCoords |-> vectorMax(vectorMax(lesserNode.maxCoords, lesserNode.maxCoords),
                             greaterNode.maxCoords),
     numNodesInBranch |-> lesserNode.numNodesInBranch + greaterNode.numNodesInBranch + 1,
     nChildren |-> 2, nodeID |-> -1]

\* The subtree of an interior node: its own record and its children's subtrees.
JoinSubtrees(path, axis, sp2, L, G) ==
    (path :> InteriorNode(axis, sp2, L[Append(path, 0)], G[Append(path, 1)])) @@ L @@ G

\* BVHNode6D::BVHNode6D(points, axis, root): the subtree built at `path`.
RECURSIVE BuildNodes(_, _, _, _, _)
BuildNodes(points, axis, path, depth, g) ==
    IF Len(points) = 0 THEN path :> EmptyNode(axis, g)
    ELSE IF Len(points) = 1 THEN path :> LeafNode(points[1], axis)
    ELSE IF depth >= MaxDepth THEN path :> UnfinishedNode(axis)
    ELSE LET splitPoint2 == AxisSplittingPlane2(points, axis)
             IsLesser(b) == 2 * GetCoordFromBody(b, axis) <= splitPoint2
             IsGreater(b) == ~IsLesser(b)
             nextAxis == NextAxis(axis)
         IN  JoinSubtrees(path, axis, splitPoint2,
                 BuildNodes(SelectSeq(points, IsLesser), nextAxis,
                            Append(path, 0), depth + 1, g),
                 BuildNodes(SelectSeq(points, IsGreater), nextAxis,
                            Append(path, 1), depth + 1, g))

\* size_t BVHNode6D::assignIDsRecursively(size_t startID): the ids given in
\* the subtree at `path`, and the returned nextID.
RECURSIVE AssignIDs(_, _, _)
\* The loop over the children passing the same nextID to both.
AssignIDsInChildren_SameNextID(T, path, startID, a0) ==
    LET a1 == AssignIDs(T, Append(path, 1), startID + 1)
    IN  [ids |-> (path :> startID) @@ a0.ids @@ a1.ids, next |-> a1.next]

AssignIDsInChildren(T, path, startID, a0) ==
    LET a1 == AssignIDs(T, Append(path, 1), a0.next)
    IN  [ids |-> (path :> startID) @@ a0.ids @@ a1.ids, next |-> a1.next]

AssignIDs(T, path, startID) ==
    IF T[path].nodeType = "Interior"
      THEN AssignIDsInChildren(T, path, startID,
                               AssignIDs(T, Append(path, 0), startID + 1))
      ELSE [ids |-> (path :> startID), next |-> startID + 1]

WithIDs(T, ids) ==
    [p \in DOMAIN T |-> [T[p] EXCEPT !.nodeID = IF p \in DOMAIN ids THEN ids[p] ELSE -1]]

Root == <<>>

\* BVHNode6D *Create6DBVHFromMesh(mesh, geom): new BVHNode6D(verts, 0, 0)
\* and tree->assignIDsRecursively(0).
BuiltTree(bodies, g) ==
    LET T == BuildNodes(bodies, 0, Root, 0, g)
    IN  WithIDs(T, AssignIDs(T, Root, 0).ids)

Child(p, i) == Append(p, i)

Finished(T) == \A p \in DOMAIN T : T[p].nodeType # "Unfinished"

\* clusterIndices of a node: the face ids of the leaves of its subtree,
\* lesser child first.
RECURSIVE ClusterIndices(_, _)
ClusterIndices(T, p) ==
    CASE T[p].nodeType = "Leaf"     -> <<T[p].elementID>>
      [] T[p].nodeType = "Interior" -> ClusterIndices(T, Child(p, 0))
                                         \o ClusterIndices(T, Child(p, 1))
      [] OTHER                      -> <<>>

\* nElements of a node: the number of faces in its subtree.
NElements(T, p) == Len(ClusterIndices(T, p))

\* BVHNode6D::boxContainsPoint for the rational point c / m (m > 0).
boxContainsPoint(node, c, m) ==
    \A k \in 1 .. 3 : node.minCoords[k] * m <= c[k] /\ c[k] <= node.maxCoords[k] * m

\* |maxCoords - minCoords|^2, the square of the numerator of nodeRatio.
DiagSq(node) ==
    LET d == VecAdd(node.maxCoords, VecScale(-1, node.minCoords))
    IN  d[1] * d[1] + d[2] * d[2] + d[3] * d[3]

\* |c1/m1 - c2/m2|^2 * (m1*m2)^2
CrossDistSq(c1, m1, c2, m2) ==
    LET d == VecAdd(VecScale(m2, c1), VecScale(-m1, c2))
    IN  d[1] * d[1] + d[2] * d[2] + d[3] * d[3]

\* Hs::MetricDistanceTermFrac(s, x, y) between the rational points c1/m1 and
\* c2/m2: a kernel value that depends on the distance alone, is symmetric in
\* the two points, non-negative and decreasing (100000 / |x - y|^2, rounded
\* down).
MetricDistanceTermFrac(c1, m1, c2, m2) ==
    (100000 * m1 * m1 * m2 * m2) \div CrossDistSq(c1, m1, c2, m2)

\* ========================================================================
\* Part 3.  BlockClusterTree                  (src/src/block_cluster_tree.cpp)
\* ========================================================================
\* A cluster pair is <<p1, p2>>, two node addresses.  separationCoeff is the
\* fraction theta[1] / theta[2].

\* isPairSmallEnough with the test of the first cluster alone.
isPairSmallEnough_FirstOnly(T, pair) == NElements(T, pair[1]) <= 1

\* bool BlockClusterTree::isPairSmallEnough(ClusterPair pair)
isPairSmallEnough(T, pair) ==
    LET s1 == NElements(T, pair[1])
        s2 == NElements(T, pair[2])
    IN  (s1 <= 1) \/ (s2 <= 1) \/ (s1 + s2 <= 8)

\* isPairAdmissible with the box test and the ratio test of the first
\* cluster only.
isPairAdmissible_FirstClusterOnly(T, pair, theta) ==
    LET n1 == T[pair[1]]
        n2 == T[pair[2]]
        distSq == CrossDistSq(n1.comNum, n1.totalMass, n2.comNum, n2.totalMass)
        mm == n1.totalMass * n2.totalMass
    IN  IF pair[1] = pair[2] THEN FALSE
        ELSE IF boxContainsPoint(n1, n2.comNum, n2.totalMass) THEN FALSE
        ELSE DiagSq(n1) * mm * mm * theta[2] * theta[2] < theta[1] * theta[1] * distSq

\* bool BlockClusterTree::isPairAdmissible(ClusterPair pair, double theta)
isPairAdmissible(T, pair, theta) ==
    LET n1 == T[pair[1]]
        n2 == T[pair[2]]
        distSq == CrossDistSq(n1.comNum, n1.totalMass, n2.comNum, n2.totalMass)
        mm == n1.totalMass * n2.totalMass
        \* nodeRatio(distance) < theta, on the squares
        RatioBelow(n) == DiagSq(n) * mm * mm * theta[2] * theta[2]
                            < theta[1] * theta[1] * distSq
    IN  IF pair[1] = pair[2] THEN FALSE
        ELSE IF boxContainsPoint(n1, n2.comNum, n2.totalMass)
                  \/ boxContainsPoint(n2, n1.comNum, n1.totalMass) THEN FALSE
        ELSE RatioBelow(n1) /\ RatioBelow(n2)

\* The loop body with the size test ahead of the admissibility test.
ClassifyPair_SmallEnoughFirst(T, pair, theta) ==
    IF NElements(T, pair[1]) = 0 \/ NElements(T, pair[2]) = 0 THEN "drop"
    ELSE IF isPairSmallEnough(T, pair) THEN "inadmissible"
    ELSE IF isPairAdmissible(T, pair, theta) THEN "admissible"
    ELSE "expand"

\* The branch of the loop body of splitInadmissibleNodes taken for a pair.
ClassifyPair(T, pair, theta) ==
    IF NElements(T, pair[1]) = 0 \/ NElements(T, pair[2]) = 0 THEN "drop"
    ELSE IF NElements(T, pair[1]) = 1 /\ NElements(T, pair[2]) = 1 THEN "inadmissible"
    ELSE IF isPairAdmissible(T, pair, theta) THEN "admissible"
    ELSE IF isPairSmallEnough(T, pair) THEN "inadmissible"
    ELSE "expand"

\* cluster->children[i]; a read past the end of children is "dangling".
ChildPtr(T, p, i) == IF i < T[p].nChildren THEN Child(p, i) ELSE "dangling"

\* The child pairs with the inner index j never advanced past the outer i.
ChildPairs_SameIndex(T, pair) ==
    << <<ChildPtr(T, pair[1], 0), ChildPtr(T, pair[2], 0)>>,
       <<ChildPtr(T, pair[1], 0), ChildPtr(T, pair[2], 0)>>,
       <<ChildPtr(T, pair[1], 1), ChildPtr(T, pair[2], 1)>>,
       <<ChildPtr(T, pair[1], 1), ChildPtr(T, pair[2], 1)>> >>

\* The pair put back in nextPairs as it is, not subdivided.
ChildPairs_NotSubdivided(T, pair) == << pair >>

\* The BVH_N_CHILDREN x BVH_N_CHILDREN child pairs of a pair, i outer, j inner.
ChildPairs(T, pair) ==
    << <<ChildPtr(T, pair[1], 0), ChildPtr(T, pair[2], 0)>>,
       <<ChildPtr(T, pair[1], 0), ChildPtr(T, pair[2], 1)>>,
       <<ChildPtr(T, pair[1], 1), ChildPtr(T, pair[2], 0)>>,
       <<ChildPtr(T, pair[1], 1), ChildPtr(T, pair[2], 1)>> >>

RECURSIVE FlattenSeq(_)
FlattenSeq(ss) == IF ss = <<>> THEN <<>> ELSE Head(ss) \o FlattenSeq(Tail(ss))

\* One call of splitInadmissibleNodes on the list `unresolved`: what it
\* appends to inadmissiblePairs and admissiblePairs, and the next list.
SplitResult(T, unresolved, theta) ==
    LET Is(kind) == SelectSeq(unresolved, LAMBDA pr : ClassifyPair(T, pr, theta) = kind)
        expanded == Is("expand")
    IN  [inadmissible |-> Is("inadmissible"),
         admissible   |-> Is("admissible"),
         nextPairs    |-> FlattenSeq([i \in DOMAIN expanded |-> ChildPairs(T, expanded[i])])]

\* The node with a given nodeID (treeContainer->byIndex).
NodeByID(T, id) == CHOOSE p \in DOMAIN T : T[p].nodeID = id

\* OrganizePairsByFirst with the bucket chosen by the second cluster.
BucketKey_Second(T, pair) == T[pair[2]].nodeID

\* The bucket OrganizePairsByFirst puts a pair in: pair.cluster1->nodeID.
BucketKey(T, pair) == T[pair[1]].nodeID

\* void BlockClusterTree::OrganizePairsByFirst()
OrganizePairsByFirst(T, adm) ==
    [i \in 0 .. T[Root].numNodesInBranch - 1 |->
        SelectSeq(adm, LAMBDA pr : BucketKey(T, pr) = i)]

\* percolateWtDot: the wtDot stored at the node at p.
RECURSIVE percolateWtDot(_, _, _)
\* percolateWtDot with `rootSum = child->data.wtDot` in the loop.
percolateWtDot_LastChildOnly(T, p, v) ==
    IF T[p].nodeType = "Leaf"
      THEN T[p].totalMass * v[T[p].elementID]
      ELSE IF T[p].nChildren = 0 THEN 0
      ELSE percolateWtDot(T, Child(p, T[p].nChildren - 1), v)

percolateWtDot(T, p, v) ==
    IF T[p].nodeType = "Leaf"
      THEN T[p].totalMass * v[T[p].elementID]
      ELSE SumSeq([i \in 1 .. T[p].nChildren |-> percolateWtDot(T, Child(p, i - 1), v)])

\* The contribution of one admissible pair to data_I->data.B.
PairContribution(T, pair, wtDot) ==
    MetricDistanceTermFrac(T[pair[1]].comNum, T[pair[1]].totalMass,
                           T[pair[2]].comNum, T[pair[2]].totalMass)
        * wtDot[T[pair[2]].nodeID]

\* Lines 255-266 run for bucket i: what is added to the B of each node.
BucketSum(T, bucket, wtDot, id) ==
    SumSeq([k \in DOMAIN bucket |->
              IF T[bucket[k][1]].nodeID = id
                THEN PairContribution(T, bucket[k], wtDot) ELSE 0])

\* percolateJ: data.B of the node at p after `dataTree->data.B += parentB`.
RECURSIVE percolateJ(_, _, _)
percolateJ(T, B, p) ==
    B[T[p].nodeID] + (IF p = Root THEN 0 ELSE percolateJ(T, B, SubSeq(p, 1, Len(p) - 1)))

\* The entry percolateJ assigns to b at the leaf at p.
LeafOutput(T, B, p) == T[p].totalMass * percolateJ(T, B, p)

\* Line 250, percolateWtDot(treeContainer->tree, v, mesh, geom): data.wtDot of
\* every node of the data tree.
WtDotOfTree(T, ids, v) == [id \in ids |-> percolateWtDot(T, NodeByID(T, id), v)]

\* percolateJ with `b(elementID) += totalMass * B` at the leaves.
PercolatedOutput_AddedToOutput(T, B, b) ==
    LET leaves == {p \in DOMAIN T : T[p].nodeType = "Leaf"}
    IN  [f \in DOMAIN b |->
            IF \E p \in leaves : T[p].elementID = f
              THEN b[f] + LeafOutput(T, B, CHOOSE p \in leaves : T[p].elementID = f)
              ELSE b[f]]

\* Line 269, percolateJ(treeContainer->tree, 0, b): b on return, given the
\* data.B left by the loop.
PercolatedOutput(T, B, b) ==
    LET leaves == {p \in DOMAIN T : T[p].nodeType = "Leaf"}
    IN  [f \in DOMAIN b |->
            IF \E p \in leaves : T[p].elementID = f
              THEN LeafOutput(T, B, CHOOSE p \in leaves : T[p].elementID = f)
              ELSE b[f]]

\* void BlockClusterTree::MultiplyAfPercolated(v, b): the content of b on
\* return.
MultiplyAfPercolated(T, byCluster, v, b) ==
    LET ids == DOMAIN byCluster
        wtDot == WtDotOfTree(T, ids, v)
        B == [id \in ids |->
                SumSeq([k \in 1 .. Cardinality(ids) |->
                          BucketSum(T, byCluster[k - 1], wtDot, id)])]
    IN  PercolatedOutput(T, B, b)

\* MultiplyAfPercolated with the output vector zeroed on entry, ahead of
\* percolateWtDot.
MultiplyAfPercolatedOn_OutputClearedFirst(T, byCluster, store, v, b) ==
    LET ids == DOMAIN byCluster
        cleared == [store EXCEPT ![b] = [f \in DOMAIN store[b] |-> 0]]
        wtDot == WtDotOfTree(T, ids, cleared[v])
        B == [id \in ids |->
                SumSeq([k \in 1 .. Cardinality(ids) |->
                          BucketSum(T, byCluster[k - 1], wtDot, id)])]
    IN  [cleared EXCEPT ![b] = PercolatedOutput(T, B, cleared[b])]

\* MultiplyAfPercolated(v, b) on its reference arguments: `store` holds the
\* vectors by name, v and b name the two arguments, which may be the same
\* vector.  Line 250 reads store[v] into data.wtDot, the loop of lines
\* 255-266 works on the data tree alone, line 269 writes store[b].
MultiplyAfPercolatedOn(T, byCluster, store, v, b) ==
    LET ids == DOMAIN byCluster
        wtDot == WtDotOfTree(T, ids, store[v])
        B == [id \in ids |->
                SumSeq([k \in 1 .. Cardinality(ids) |->
                          BucketSum(T, byCluster[k - 1], wtDot, id)])]
    IN  [store EXCEPT ![b] = PercolatedOutput(T, B, store[b])]

\* MultiplyAdmissiblePercolated without the diagonal term Af_1 .* v.
DiagonalCorrection_Dropped(af1, v, b) == [f \in DOMAIN b |-> 2 * (0 - b[f])]

\* b = 2 * (Af_1.asDiagonal() * v - b)
DiagonalCorrection(af1, v, b) == [f \in DOMAIN b |-> 2 * (af1[f] * v[f] - b[f])]

\* void BlockClusterTree::MultiplyAdmissiblePercolated(v, b)
MultiplyAdmissiblePercolated(T, byCluster, af1, v, b) ==
    DiagonalCorrection(af1, v, MultiplyAfPercolated(T, byCluster, v, b))

\* The inner loop body with the first face's mass l1 in place of l2.
RowTerm_FirstMass(bodies, f1, f2, v) ==
    IF f1 = f2 THEN 0
    ELSE bodies[f1 + 1].mass
            * MetricDistanceTermFrac(bodies[f1 + 1].point, 1, bodies[f2 + 1].point, 1)
            * (v[f1] - v[f2])

\* AfFullProduct, inner loop body for (f1, f2): af_ij * (v(f1) - v(f2)), so
\* that the row sum is a_times_one_i * v(f1) - a_times_v_i.
RowTerm(bodies, f1, f2, v) ==
    IF f1 = f2 THEN 0
    ELSE bodies[f2 + 1].mass
            * MetricDistanceTermFrac(bodies[f1 + 1].point, 1, bodies[f2 + 1].point, 1)
            * (v[f1] - v[f2])

\* void BlockClusterTree::AfFullProduct(pair, v_mid, result): what is added
\* to result(f).
AfFullProduct(T, bodies, pair, v, f) ==
    LET c1 == ClusterIndices(T, pair[1])
        c2 == ClusterIndices(T, pair[2])
    IN  SumSeq([i \in DOMAIN c1 |->
            IF c1[i] # f THEN 0
            ELSE 2 * bodies[f + 1].mass
                   * SumSeq([j \in DOMAIN c2 |-> RowTerm(bodies, f, c2[j], v)])])

\* void BlockClusterTree::MultiplyInadmissible(v_hat, b_hat): b_hat on
\* return (the sum of the threads' private results).
MultiplyInadmissible(T, bodies, inadm, v, b) ==
    [f \in DOMAIN b |->
        b[f] + SumSeq([k \in DOMAIN inadm |-> AfFullProduct(T, bodies, inadm[k], v, f)])]

\* The BCT-backed operator A: the percolated admissible part with the
\* diagonal correction, plus the exact inadmissible part.
OperatorA(T, bodies, byCluster, inadm, af1, v) ==
    MultiplyInadmissible(T, bodies, inadm, v,
        MultiplyAdmissiblePercolated(T, byCluster, af1, v, [f \in DOMAIN v |-> 0]))

\* ------------------------------------------------------------------------
\* Meshes
\* ------------------------------------------------------------------------

\* Largest number of faces of the exhaustively enumerated small meshes.
MaxSmallFaces == 3

Faces(bodies) == 0 .. Len(bodies) - 1

\* Face bodies with the given barycenters and masses, face i at index i.
MeshOf(pts, masses) ==
    [i \in DOMAIN pts |-> Body(masses[i], pts[i], <<0, 0, 1>>, i - 1)]

UnitMasses(pts) == [i \in DOMAIN pts |-> 1]

\* All meshes of at most MaxSmallFaces unit-mass faces with barycenters on
\* the corners of the unit cube: coinciding barycenters and ties on every
\* axis occur.
SmallGrid == {<<x, y, z>> : x \in {0, 1}, y \in {0, 1}, z \in {0, 1}}

SmallMeshes ==
    UNION {{MeshOf(pts, UnitMasses(pts)) : pts \in [1 .. n -> SmallGrid]}
              : n \in 0 .. MaxSmallFaces}

\* Two separated clusters in general position (no ties on any axis).
TwoClusters5 ==
    << <<0, 0, 0>>, <<1, 2, 1>>, <<2, 1, 3>>, <<20, 22, 21>>, <<21, 20, 23>> >>

\* Six faces on a line: every split on axes 1 and 2 is a tie.
Line6 ==
    << <<0, 0, 0>>, <<1, 0, 0>>, <<2, 0, 0>>, <<20, 0, 0>>, <<21, 0, 0>>, <<22, 0, 0>> >>

\* Three clusters of three faces, general position.
ThreeClusters9 ==
    << <<0, 3, 1>>, <<1, 0, 2>>, <<2, 1, 0>>,
       <<10, 12, 11>>, <<11, 10, 13>>, <<12, 11, 10>>,
       <<40, 41, 42>>, <<41, 42, 40>>, <<42, 40, 41>> >>

\* Five faces, four of them tied on the first axis.
Tied5 ==
    << <<0, 0, 0>>, <<0, 1, 0>>, <<0, 2, 5>>, <<0, 3, 6>>, <<7, 1, 1>> >>

\* Two clusters of four faces side by side, each with one face far away in
\* opposite directions on the second axis.
Outliers10 ==
    << <<0, 0, 0>>, <<1, 2, 1>>, <<2, 1, 3>>, <<1, 3, 2>>, <<2, 50, 1>>,
       <<10, 0, 0>>, <<11, 2, 1>>, <<12, 1, 3>>, <<11, 3, 2>>, <<12, -50, 1>> >>

\* One face away from a cluster of nine in general position: the root is
\* split into a Leaf and the cluster.
Lone10 ==
    << <<0, 0, 0>>, <<10, 3, 1>>, <<11, 0, 2>>, <<12, 1, 0>>, <<13, 5, 4>>,
       <<14, 4, 6>>, <<15, 6, 5>>, <<16, 8, 9>>, <<17, 9, 7>>, <<18, 7, 8>> >>

BigMeshes ==
    { MeshOf(TwoClusters5, <<1, 2, 1, 1, 2>>),
      MeshOf(Line6, UnitMasses(Line6)),
      MeshOf(ThreeClusters9, <<1, 1, 2, 1, 1, 1, 2, 1, 1>>),
      MeshOf(Tied5, <<2, 1, 1, 1, 1>>) }

\* Meshes for the matrix-vector products: at least five faces, so that the
\* root pair is expanded.
MulMeshes ==
    { MeshOf(TwoClusters5, <<1, 2, 1, 1, 2>>),
      MeshOf(Tied5, <<2, 1, 1, 1, 1>>) }

\* Five faces in general position with unequal areas.
Spread5 ==
    << <<3, 1, 0>>, <<0, 4, 2>>, <<5, 5, 1>>, <<1, 2, 6>>, <<4, 0, 3>> >>

\* Meshes for the refit: three of five faces and the small ones of at most
\* two faces.
RefitMeshes ==
    { MeshOf(TwoClusters5, <<1, 2, 1, 1, 2>>),
      MeshOf(Tied5, <<2, 1, 1, 1, 1>>),
      MeshOf(Spread5, <<3, 1, 2, 1, 1>>) }
      \cup {m \in SmallMeshes : Len(m) <= 2}

\* Values of separationCoeff.
Thetas == {<<1, 4>>, <<2, 1>>}

\* ------------------------------------------------------------------------
\* Construction: Create6DBVHFromMesh, then BlockClusterTree::BlockClusterTree
\* ------------------------------------------------------------------------

BCTStart(meshes) ==
    /\ mesh \in meshes
    /\ sepCoeff \in Thetas
    /\ nodes = <<>>
    /\ bctPc = "start"
    /\ unresolvedPairs = <<>>
    /\ admissiblePairs = <<>>
    /\ inadmissiblePairs = <<>>
    /\ admissibleByCluster = <<>>
    /\ Af_1 = <<>>

BCTIdle ==
    /\ mesh = <<>>
    /\ sepCoeff = <<1, 4>>
    /\ nodes = <<>>
    /\ bctPc = "idle"
    /\ unresolvedPairs = <<>>
    /\ admissiblePairs = <<>>
    /\ inadmissiblePairs = <<>>
    /\ admissibleByCluster = <<>>
    /\ Af_1 = <<>>

MulIdle == mulIn = <<>> /\ mulOut = <<>>

LSIdle ==
    /\ positions = EntryPositions
    /\ origPositions = [i \in Vertices |-> <<0, 0, 0>>]
    /\ gradient = [v \in Vertices |-> <<0, 0, 0>>]
    /\ initGuess = 0
    /\ gradDot = 0
    /\ delta = 0
    /\ initialEnergy = 0
    /\ nextEnergy = 0
    /\ numBacktracks = 0
    /\ retval = -1
    /\ lsPc = "idle"
    /\ energyOf = <<>>
    /\ trials = <<>>

\* Create6DBVHFromMesh.  A construction whose recursion does not end leaves
\* the program inside the constructor ("unfinished").
Create6DBVHFromMesh ==
    /\ bctPc = "start"
    /\ \E g \in GarbageBoxes :
          LET T == BuiltTree(mesh, g)
          IN  /\ nodes' = T
              /\ bctPc' = IF Finished(T) THEN "bvh" ELSE "unfinished"
    /\ UNCHANGED <<mesh, sepCoeff, unresolvedPairs, admissiblePairs,
                   inadmissiblePairs, admissibleByCluster, Af_1>>
    /\ UNCHANGED <<lsVars, mulVars, parVars, stepVars, diffVars, delVars>>

\* BlockClusterTree constructor, lines 16-29: the pair (root, root).
BCT_PushRootPair ==
    /\ bctPc = "bvh"
    /\ unresolvedPairs' = << <<Root, Root>> >>
    /\ bctPc' = "split"
    /\ UNCHANGED <<mesh, sepCoeff, nodes, admissiblePairs,
                   inadmissiblePairs, admissibleByCluster, Af_1>>
    /\ UNCHANGED <<lsVars, mulVars, parVars, stepVars, diffVars, delVars>>

\* One iteration of the constructor's while loop: splitInadmissibleNodes().
\* A child pair holding a dangling pointer ends the run ("fault").
splitInadmissibleNodes ==
    /\ bctPc = "split"
    /\ Len(unresolvedPairs) > 0
    /\ LET r == SplitResult(nodes, unresolvedPairs, sepCoeff)
       IN  /\ inadmissiblePairs' = inadmissiblePairs \o r.inadmissible
           /\ admissiblePairs' = admissiblePairs \o r.admissible
           /\ unresolvedPairs' = r.nextPairs
           /\ bctPc' = IF \E k \in DOMAIN r.nextPairs :
                              "dangling" \in Range(r.nextPairs[k])
                         THEN "fault" ELSE "split"
    /\ UNCHANGED <<mesh, sepCoeff, nodes, admissibleByCluster, Af_1>>
    /\ UNCHANGED <<lsVars, mulVars, parVars, stepVars, diffVars, delVars>>

\* Constructor, lines 31-37: the loop ends, OrganizePairsByFirst().
BCT_OrganizePairs ==
    /\ bctPc = "split"
    /\ Len(unresolvedPairs) = 0
    /\ admissibleByCluster' = OrganizePairsByFirst(nodes, admissiblePairs)
    /\ bctPc' = "organized"
    /\ UNCHANGED <<mesh, sepCoeff, nodes, unresolvedPairs, admissiblePairs,
                   inadmissiblePairs, Af_1>>
    /\ UNCHANGED <<lsVars, mulVars, parVars, stepVars, diffVars, delVars>>

\* PremultiplyAf1 without the multiplication: Af_1 is left all ones.
PremultiplyAf1_OnesOnly ==
    /\ bctPc = "organized"
    /\ Af_1' = [f \in 0 .. NElements(nodes, Root) - 1 |-> 1]
    /\ bctPc' = "ready"
    /\ UNCHANGED <<mesh, sepCoeff, nodes, unresolvedPairs, admissiblePairs,
                   inadmissiblePairs, admissibleByCluster>>
    /\ UNCHANGED <<lsVars, mulVars, parVars, stepVars, diffVars, delVars>>

\* void BlockClusterTree::PremultiplyAf1(): Af_1.setOnes(nElements) and
\* MultiplyAfPercolated(Af_1, Af_1), both arguments the member Af_1; the
\* constructor returns.
PremultiplyAf1 ==
    /\ bctPc = "organized"
    /\ LET ones == [f \in 0 .. NElements(nodes, Root) - 1 |-> 1]
           members == [name \in {"Af_1"} |-> ones]
       IN  Af_1' = MultiplyAfPercolatedOn(nodes, admissibleByCluster,
                                          members, "Af_1", "Af_1")["Af_1"]
    /\ bctPc' = "ready"
    /\ UNCHANGED <<mesh, sepCoeff, nodes, unresolvedPairs, admissiblePairs,
                   inadmissiblePairs, admissibleByCluster>>
    /\ UNCHANGED <<lsVars, mulVars, parVars, stepVars, diffVars, delVars>>

BCTNext ==
    \/ Create6DBVHFromMesh
    \/ BCT_PushRootPair
    \/ splitInadmissibleNodes
    \/ BCT_OrganizePairs
    \/ PremultiplyAf1

\* Entries of the vectors multiplied.
VecVals == {-1, 0, 1}

\* The first vector multiplied: a unit vector or the all-ones vector.
FirstVectors(F) ==
    {[f \in F |-> IF f = g THEN 1 ELSE 0] : g \in F} \cup {[f \in F |-> 1]}

\* y = A v for a vector v chosen by the caller: MultiplyAdmissiblePercolated
\* followed by MultiplyInadmissible.  The first vector is one of
\* FirstVectors, the second has entries in VecVals.
MultiplyVector ==
    /\ bctPc = "ready"
    /\ Len(mulIn) < 2
    /\ \E v \in IF mulIn = <<>> THEN FirstVectors(Faces(mesh))
                                ELSE [Faces(mesh) -> VecVals] :
          /\ mulIn' = Append(mulIn, v)
          /\ mulOut' = Append(mulOut,
                 OperatorA(nodes, mesh, admissibleByCluster, inadmissiblePairs, Af_1, v))
    /\ UNCHANGED <<lsVars, bctVars, parVars, stepVars, diffVars, delVars>>


\* ------------------------------------------------------------------------
\* MultiplyAfPercolated step by step: the parallel loop of lines 255-266,
\* as run by PremultiplyAf1 at the end of the constructor
\* ------------------------------------------------------------------------

\* Threads of the OpenMP team.
NumThreads == 2
Threads == 1 .. NumThreads

IdleThread == [iter |-> -1, k |-> 0, phase |-> "idle", reg |-> 0]

ParIdle ==
    /\ parPc = "idle"
    /\ remaining = {}
    /\ thr = [t \in Threads |-> IdleThread]
    /\ dataB = <<>>
    /\ dataWtDot = <<>>
    /\ accesses = {}

\* The pair the thread is at: admissibleByCluster[i][k].
CurrentPair(t) == admissibleByCluster[thr[t].iter][thr[t].k]

\* Iterations whose bucket is empty execute no statement and cannot be told
\* apart; of these only the lowest one is offered to a thread.
Claimable ==
    LET empties == {i \in remaining : admissibleByCluster[i] = <<>>}
    IN  {i \in remaining : admissibleByCluster[i] # <<>>}
          \cup {i \in empties : \A j \in empties : i <= j}

\* PremultiplyAf1, line 183, and MultiplyAfPercolated, lines 248-250: Af_1 is
\* all ones, the data tree is created and percolateWtDot fills data.wtDot.
Par_Enter ==
    /\ bctPc = "organized"
    /\ parPc = "idle"
    /\ LET ones == [f \in 0 .. NElements(nodes, Root) - 1 |-> 1]
           ids == DOMAIN admissibleByCluster
       IN  /\ Af_1' = ones
           /\ dataWtDot' = WtDotOfTree(nodes, ids, ones)
           /\ dataB' = [id \in ids |-> 0]
           /\ remaining' = ids
    /\ parPc' = "loop"
    /\ bctPc' = "premultiply"
    /\ UNCHANGED <<thr, accesses>>
    /\ UNCHANGED <<mesh, sepCoeff, nodes, unresolvedPairs, admissiblePairs,
                   inadmissiblePairs, admissibleByCluster>>
    /\ UNCHANGED <<lsVars, mulVars, stepVars, diffVars, delVars>>

\* Line 256: a thread of the team starts an iteration i of the loop; OpenMP
\* fixes neither the thread nor the order.
Par_StartIteration(t) ==
    /\ parPc = "loop"
    /\ thr[t].phase = "idle"
    /\ \E i \in Claimable :
          /\ remaining' = remaining \ {i}
          /\ thr' = [thr EXCEPT ![t] =
                       IF admissibleByCluster[i] = <<>>
                         THEN IdleThread
                         ELSE [iter |-> i, k |-> 1, phase |-> "read", reg |-> 0]]
    /\ UNCHANGED <<parPc, dataB, dataWtDot, accesses>>
    /\ UNCHANGED <<lsVars, bctVars, mulVars, stepVars, diffVars, delVars>>

\* Lines 260-264, the right-hand side of `data_I->data.B += a_IJ *
\* data_J->data.wtDot`: data_I->data.B and data_J->data.wtDot are read.
Par_Read(t) ==
    /\ parPc = "loop"
    /\ thr[t].phase = "read"
    /\ LET pair == CurrentPair(t)
           idI == nodes[pair[1]].nodeID
           idJ == nodes[pair[2]].nodeID
       IN  /\ thr' = [thr EXCEPT ![t].phase = "write",
                                 ![t].reg = dataB[idI]
                                              + PairContribution(nodes, pair, dataWtDot)]
           /\ accesses' = accesses \cup {<<thr[t].iter, "B", idI, "r">>,
                                         <<thr[t].iter, "wtDot", idJ, "r">>}
    /\ UNCHANGED <<parPc, remaining, dataB, dataWtDot>>
    /\ UNCHANGED <<lsVars, bctVars, mulVars, stepVars, diffVars, delVars>>

\* Line 264, the store to data_I->data.B; then the next pair of the bucket,
\* or the end of the iteration.
Par_Write(t) ==
    /\ parPc = "loop"
    /\ thr[t].phase = "write"
    /\ LET pair == CurrentPair(t)
           idI == nodes[pair[1]].nodeID
       IN  /\ dataB' = [dataB EXCEPT ![idI] = thr[t].reg]
           /\ accesses' = accesses \cup {<<thr[t].iter, "B", idI, "w">>}
    /\ thr' = [thr EXCEPT ![t] =
                 IF thr[t].k < Len(admissibleByCluster[thr[t].iter])
                   THEN [thr[t] EXCEPT !.k = thr[t].k + 1, !.phase = "read"]
                   ELSE IdleThread]
    /\ UNCHANGED <<parPc, remaining, dataWtDot>>
    /\ UNCHANGED <<lsVars, bctVars, mulVars, stepVars, diffVars, delVars>>

\* The barrier at the end of the loop, then lines 268-272: percolateJ writes
\* b (here Af_1) and the constructor returns.
Par_Exit ==
    /\ parPc = "loop"
    /\ bctPc = "premultiply"
    /\ remaining = {}
    /\ \A t \in Threads : thr[t].phase = "idle"
    /\ Af_1' = PercolatedOutput(nodes, dataB, Af_1)
    /\ parPc' = "done"
    /\ bctPc' = "ready"
    /\ UNCHANGED <<remaining, thr, dataB, dataWtDot, accesses>>
    /\ UNCHANGED <<mesh, sepCoeff, nodes, unresolvedPairs, admissiblePairs,
                   inadmissiblePairs, admissibleByCluster>>
    /\ UNCHANGED <<lsVars, mulVars, stepVars, diffVars, delVars>>

ParNext ==
    \/ Create6DBVHFromMesh
    \/ BCT_PushRootPair
    \/ splitInadmissibleNodes
    \/ BCT_OrganizePairs
    \/ Par_Enter
    \/ \E t \in Threads : Par_StartIteration(t)
    \/ \E t \in Threads : Par_Read(t)
    \/ \E t \in Threads : Par_Write(t)
    \/ Par_Exit


\* ------------------------------------------------------------------------
\* A product y = A v step by step: MultiplyAdmissiblePercolated with the
\* parallel loop of MultiplyAfPercolated, then MultiplyInadmissible with its
\* parallel region (lines 161-179)
\* ------------------------------------------------------------------------

StepIdle ==
    /\ stepPc = "idle"
    /\ stepV = <<>>
    /\ stepB = <<>>
    /\ bAtEntry = <<>>
    /\ inRemaining = {}
    /\ priv = [t \in Threads |-> <<>>]
    /\ merged = {}
    /\ lockHolder = 0

\* The vectors v multiplied step by step: a ramp and an alternating vector.
StepVectors(F) ==
    { [f \in F |-> f + 1], [f \in F |-> IF f % 2 = 0 THEN 1 ELSE -1] }

\* The private result starting as a copy of b_hat instead of zero.
PrivateResult_CopyOfOutput(b) == b

\* Line 164, result.setZero(b_hat.rows()), copied into each thread by
\* firstprivate(result).
PrivateResult(b) == [f \in DOMAIN b |-> 0]

\* AfFullProduct(pair, v_hat, result): result on return.
AddFullProduct(result, pair, v) ==
    [f \in DOMAIN result |-> result[f] + AfFullProduct(nodes, mesh, pair, v, f)]

\* Line 176, b_hat += result.
AddResult(b, result) == [f \in DOMAIN b |-> b[f] + result[f]]

\* MultiplyAdmissiblePercolated(v, b) is called; MultiplyAfPercolated, lines
\* 248-250: the data tree is created and percolateWtDot fills data.wtDot.
Mul_Enter ==
    /\ bctPc = "ready"
    /\ stepPc = "idle"
    /\ parPc = "idle"
    /\ \E v \in StepVectors(Faces(mesh)) :
          /\ stepV' = v
          /\ dataWtDot' = WtDotOfTree(nodes, DOMAIN admissibleByCluster, v)
    /\ stepB' = [f \in Faces(mesh) |-> 0]
    /\ dataB' = [id \in DOMAIN admissibleByCluster |-> 0]
    /\ remaining' = DOMAIN admissibleByCluster
    /\ parPc' = "loop"
    /\ stepPc' = "admissible"
    /\ UNCHANGED <<thr, accesses>>
    /\ UNCHANGED <<bAtEntry, inRemaining, priv, merged, lockHolder>>
    /\ UNCHANGED <<lsVars, bctVars, mulVars, diffVars, delVars>>

\* Line 202 with the member as the target, `Af_1 = 2 * (Af_1.asDiagonal() *
\* v - b)`.
AssignCorrection_ToAf1(af1, v, b) == <<DiagonalCorrection(af1, v, b), b>>

\* Line 202, `b = 2 * (Af_1.asDiagonal() * v - b)`: <<Af_1, b>> after the
\* assignment.
AssignCorrection(af1, v, b) == <<af1, DiagonalCorrection(af1, v, b)>>

\* The loop of MultiplyAfPercolated has ended: percolateJ writes b, the data
\* tree is deleted (lines 268-272) and MultiplyAdmissiblePercolated applies
\* the diagonal correction (line 202).
Mul_AdmissibleReturn ==
    /\ stepPc = "admissible"
    /\ parPc = "loop"
    /\ remaining = {}
    /\ \A t \in Threads : thr[t].phase = "idle"
    /\ LET after == AssignCorrection(Af_1, stepV, PercolatedOutput(nodes, dataB, stepB))
       IN  /\ Af_1' = after[1]
           /\ stepB' = after[2]
    /\ dataB' = <<>>
    /\ dataWtDot' = <<>>
    /\ parPc' = "idle"
    /\ stepPc' = "admissible done"
    /\ UNCHANGED <<remaining, thr, accesses>>
    /\ UNCHANGED <<stepV, bAtEntry, inRemaining, priv, merged, lockHolder>>
    /\ UNCHANGED <<mesh, sepCoeff, nodes, bctPc, unresolvedPairs, admissiblePairs,
                   inadmissiblePairs, admissibleByCluster>>
    /\ UNCHANGED <<lsVars, mulVars, diffVars, delVars>>

\* MultiplyInadmissible(v_hat, b_hat), lines 163-168: the team starts, each
\* thread with its private copy of the zeroed result.
In_Enter ==
    /\ stepPc = "admissible done"
    /\ bAtEntry' = stepB
    /\ priv' = [t \in Threads |-> PrivateResult(stepB)]
    /\ inRemaining' = DOMAIN inadmissiblePairs
    /\ merged' = {}
    /\ lockHolder' = 0
    /\ stepPc' = "for"
    /\ UNCHANGED <<stepV, stepB>>
    /\ UNCHANGED <<lsVars, bctVars, mulVars, parVars, diffVars, delVars>>

\* Lines 169-172: a thread runs an iteration i of the `omp for`; OpenMP fixes
\* neither the thread nor the order.
In_Pair(t) ==
    /\ stepPc = "for"
    /\ \E i \in inRemaining :
          /\ inRemaining' = inRemaining \ {i}
          /\ priv' = [priv EXCEPT ![t] = AddFullProduct(priv[t], inadmissiblePairs[i], stepV)]
    /\ UNCHANGED <<stepPc, stepV, stepB, bAtEntry, merged, lockHolder>>
    /\ UNCHANGED <<lsVars, bctVars, mulVars, parVars, diffVars, delVars>>

\* The barrier that ends the `omp for`.
In_Barrier ==
    /\ stepPc = "for"
    /\ inRemaining = {}
    /\ stepPc' = "critical"
    /\ UNCHANGED <<stepV, stepB, bAtEntry, inRemaining, priv, merged, lockHolder>>
    /\ UNCHANGED <<lsVars, bctVars, mulVars, parVars, diffVars, delVars>>

\* Line 174: a thread enters the critical section.
In_CriticalEnter(t) ==
    /\ stepPc = "critical"
    /\ lockHolder = 0
    /\ t \notin merged
    /\ lockHolder' = t
    /\ UNCHANGED <<stepPc, stepV, stepB, bAtEntry, inRemaining, priv, merged>>
    /\ UNCHANGED <<lsVars, bctVars, mulVars, parVars, diffVars, delVars>>

\* Lines 175-177: b_hat += result, and the thread leaves the critical section.
In_CriticalAdd(t) ==
    /\ stepPc = "critical"
    /\ lockHolder = t
    /\ stepB' = AddResult(stepB, priv[t])
    /\ merged' = merged \cup {t}
    /\ lockHolder' = 0
    /\ UNCHANGED <<stepPc, stepV, bAtEntry, inRemaining, priv>>
    /\ UNCHANGED <<lsVars, bctVars, mulVars, parVars, diffVars, delVars>>

\* Line 178: the parallel region ends, MultiplyInadmissible returns.
In_Return ==
    /\ stepPc = "critical"
    /\ merged = Threads
    /\ stepPc' = "done"
    /\ UNCHANGED <<stepV, stepB, bAtEntry, inRemaining, priv, merged, lockHolder>>
    /\ UNCHANGED <<lsVars, bctVars, mulVars, parVars, diffVars, delVars>>

StepNext ==
    \/ BCTNext
    \/ Mul_Enter
    \/ \E t \in Threads : Par_StartIteration(t)
    \/ \E t \in Threads : Par_Read(t)
    \/ \E t \in Threads : Par_Write(t)
    \/ Mul_AdmissibleReturn
    \/ In_Enter
    \/ \E t \in Threads : In_Pair(t)
    \/ In_Barrier
    \/ \E t \in Threads : In_CriticalEnter(t)
    \/ \E t \in Threads : In_CriticalAdd(t)
    \/ In_Return

\* ------------------------------------------------------------------------
\* Refit: BVHNode6D::recomputeCentersOfMass
\* ------------------------------------------------------------------------

\* The leaf case with the bounds left as they were.
RecomputeLeaf_BoundsKept(node, mp) ==
    [node EXCEPT !.totalMass = mp.mass,
                 !.comNum = VecScale(mp.mass, mp.point)]

\* Lines 294-301, the Leaf case: mass, center and bounds from the face's
\* current area and barycenter.
RecomputeLeaf(node, mp) ==
    [node EXCEPT !.totalMass = mp.mass,
                 !.comNum = VecScale(mp.mass, mp.point),
                 !.minCoords = mp.point,
                 !.maxCoords = mp.point]

\* Lines 288-292, the Empty case: minCoords and maxCoords are not assigned.
RecomputeEmpty(node) ==
    [node EXCEPT !.totalMass = 0, !.comNum = <<0, 0, 0>>]

\* Lines 302-310, the Interior case after the children were recomputed:
\* averageDataFromChildren assigns mass, center and bounds.
RecomputeInterior(node, lesserNode, greaterNode) ==
    LET avg == InteriorNode(node.splitAxis, node.splitPoint2, lesserNode, greaterNode)
    IN  [node EXCEPT !.totalMass = avg.totalMass,
                     !.comNum = avg.comNum,
                     !.minCoords = avg.minCoords,
                     !.maxCoords = avg.maxCoords]

\* void BVHNode6D::recomputeCentersOfMass(mesh, geom): the node at p after
\* the call on it, the faces being the bodies of m.
RECURSIVE RecomputedNode(_, _, _)
RecomputedNode(T, m, p) ==
    IF T[p].nodeType = "Empty" THEN RecomputeEmpty(T[p])
    ELSE IF T[p].nodeType = "Leaf" THEN RecomputeLeaf(T[p], m[T[p].elementID + 1])
    ELSE RecomputeInterior(T[p], RecomputedNode(T, m, Child(p, 0)),
                                 RecomputedNode(T, m, Child(p, 1)))

\* The geometries the faces can have moved to: as many faces, other areas and
\* barycenters.
MovedMeshes(m) == {m2 \in RefitMeshes : Len(m2) = Len(m)}

\* The call on the root after the faces have moved; on the five-face meshes
\* the faces move and the tree is refitted again and again.
recomputeCentersOfMass ==
    /\ bctPc = "bvh" \/ (bctPc = "refit" /\ Len(mesh) >= 5)
    /\ \E m \in MovedMeshes(mesh) :
          /\ mesh' = m
          /\ nodes' = [p \in DOMAIN nodes |-> RecomputedNode(nodes, m, p)]
    /\ bctPc' = "refit"
    /\ UNCHANGED <<sepCoeff, unresolvedPairs, admissiblePairs,
                   inadmissiblePairs, admissibleByCluster, Af_1>>
    /\ UNCHANGED <<lsVars, mulVars, parVars, stepVars, diffVars, delVars>>

\* ------------------------------------------------------------------------
\* AllPairsTPEnergy::Differential
\* ------------------------------------------------------------------------

\* Face lists of kernel->mesh, each face by its adjacentVertices(): two faces
\* sharing an edge, sharing one vertex, sharing nothing, on the same three
\* vertices; a fan of three faces; the four faces of a tetrahedron.
DiffMeshes ==
    { << <<1, 2, 3>>, <<1, 3, 4>> >>,
      << <<1, 2, 3>>, <<3, 4, 5>> >>,
      << <<1, 2, 3>>, <<4, 5, 6>> >>,
      << <<1, 2, 3>>, <<3, 2, 1>> >>,
      << <<1, 2, 3>>, <<1, 3, 4>>, <<1, 4, 5>> >>,
      << <<1, 2, 3>>, <<3, 2, 4>>, <<4, 5, 6>> >>,
      << <<1, 2, 3>>, <<1, 4, 2>>, <<2, 4, 3>>, <<3, 4, 1>> >>,
      << <<1, 2, 3>> >>,
      << >> }

\* The vertices of the mesh; indices[v] is taken as v.
DiffVertices(F) == UNION {Range(F[f]) : f \in DOMAIN F}

\* The contents of `output` at entry: zeros, or rows left by another energy.
DiffEntries(F) ==
    { [r \in DiffVertices(F) |-> <<0, 0, 0>>],
      [r \in DiffVertices(F) |-> <<r, -1, 7>>] }

\* kernel->tpe_gradient_pair(f1, f2, v): a value that tells the pair and the
\* vertex apart and is not symmetric in the faces.
tpe_gradient_pair(f1, f2, v) == <<100 * f1 + 10 * f2 + v, f1 - f2, v>>

\* One of the two loops of GetVerticesWithoutDuplicates: the vertices vs[k..]
\* pushed to verts unless vertInds counts them; st = <<verts, vertInds>>.
RECURSIVE PushUnseen(_, _, _)
PushUnseen(st, vs, k) ==
    IF k > Len(vs) THEN st
    ELSE IF vs[k] \in st[2] THEN PushUnseen(st, vs, k + 1)
    ELSE PushUnseen(<<Append(st[1], vs[k]), st[2] \cup {vs[k]}>>, vs, k + 1)

\* GetVerticesWithoutDuplicates with the second loop pushing every vertex of
\* f2.
GetVerticesWithoutDuplicates_SecondLoopUnchecked(F, f1, f2) ==
    PushUnseen(<<<<>>, {}>>, F[f1], 1)[1] \o F[f2]

\* inline void GetVerticesWithoutDuplicates(f1, f2, verts): verts on return,
\* empty at the call.
GetVerticesWithoutDuplicates(F, f1, f2) ==
    PushUnseen(PushUnseen(<<<<>>, {}>>, F[f1], 1), F[f2], 1)[1]

\* Lines 43-52: the rows of output after the loop over verts[k..].
RECURSIVE AddGradients(_, _, _, _, _)
AddGradients(out, f1, f2, verts, k) ==
    IF k > Len(verts) THEN out
    ELSE LET r == verts[k]
         IN  AddGradients([out EXCEPT ![r] = VecAdd(out[r], tpe_gradient_pair(f1, f2, r))],
                          f1, f2, verts, k + 1)

DiffIdle ==
    /\ dfPc = "idle"
    /\ dfFaces = <<>>
    /\ dfF1 = 0
    /\ dfF2 = 0
    /\ dfOutput = <<>>
    /\ dfEntry = <<>>
    /\ dfLog = <<>>

\* Entry of Differential(output), up to the first test of the loops.
Differential_Enter ==
    /\ dfPc = "idle"
    /\ \E F \in DiffMeshes :
          /\ dfFaces' = F
          /\ \E out \in DiffEntries(F) : dfOutput' = out /\ dfEntry' = out
    /\ dfF1' = 1
    /\ dfF2' = 1
    /\ dfLog' = <<>>
    /\ dfPc' = "loop"
    /\ UNCHANGED <<lsVars, bctVars, mulVars, parVars, stepVars, delVars>>

\* Lines 34-53: one iteration of the inner loop, for the faces dfF1, dfF2.
Differential_Pair ==
    /\ dfPc = "loop"
    /\ dfF1 <= Len(dfFaces)
    /\ IF dfF1 = dfF2
         THEN UNCHANGED <<dfOutput, dfLog>>
         ELSE LET verts == GetVerticesWithoutDuplicates(dfFaces, dfF1, dfF2)
              IN  /\ dfOutput' = AddGradients(dfOutput, dfF1, dfF2, verts, 1)
                  /\ dfLog' = dfLog \o [k \in DOMAIN verts |-> <<dfF1, dfF2, verts[k]>>]
    /\ IF dfF2 < Len(dfFaces)
         THEN dfF2' = dfF2 + 1 /\ dfF1' = dfF1
         ELSE dfF2' = 1 /\ dfF1' = dfF1 + 1
    /\ UNCHANGED <<dfPc, dfFaces, dfEntry>>
    /\ UNCHANGED <<lsVars, bctVars, mulVars, parVars, stepVars, delVars>>

\* The outer loop has run through the faces.
Differential_Return ==
    /\ dfPc = "loop"
    /\ dfF1 > Len(dfFaces)
    /\ dfPc' = "done"
    /\ UNCHANGED <<dfFaces, dfF1, dfF2, dfOutput, dfEntry, dfLog>>
    /\ UNCHANGED <<lsVars, bctVars, mulVars, parVars, stepVars, delVars>>

DiffNext == Differential_Enter \/ Differential_Pair \/ Differential_Return

\* ------------------------------------------------------------------------
\* remeshing::fixDelaunay
\* ------------------------------------------------------------------------

\* int flipMax = 100 * mesh->nVertices()
FlipFactor == 100

VecSub(a, b) == <<a[1] - b[1], a[2] - b[2], a[3] - b[3]>>
Dot3(a, b) == a[1] * b[1] + a[2] * b[2] + a[3] * b[3]

\* Triangulated polygons: vertex positions and the edges by index, each edge
\* by its two end vertices; the boundary edges first.  A quadrilateral whose
\* diagonal is not Delaunay, a pentagon inscribed in a circle, a pentagon and
\* a hexagon in general position.
DelMeshes ==
    { [pos |-> <<<<0, 0, 0>>, <<4, 0, 0>>, <<5, 3, 0>>, <<1, 1, 0>>>>,
       ends |-> <<{1, 2}, {2, 3}, {3, 4}, {4, 1}, {1, 3}>>],
      [pos |-> <<<<5, 0, 0>>, <<3, 4, 0>>, <<-3, 4, 0>>, <<-5, 0, 0>>, <<0, -5, 0>>>>,
       ends |-> <<{1, 2}, {2, 3}, {3, 4}, {4, 5}, {5, 1}, {1, 3}, {1, 4}>>],
      [pos |-> <<<<0, 0, 0>>, <<6, 0, 1>>, <<7, 2, 0>>, <<3, 3, 2>>, <<1, 2, 0>>>>,
       ends |-> <<{1, 2}, {2, 3}, {3, 4}, {4, 5}, {5, 1}, {2, 4}, {2, 5}>>],
      [pos |-> <<<<0, 0, 0>>, <<3, -1, 0>>, <<6, 0, 0>>, <<6, 2, 0>>, <<3, 3, 0>>, <<0, 2, 0>>>>,
       ends |-> <<{1, 2}, {2, 3}, {3, 4}, {4, 5}, {5, 6}, {6, 1}, {1, 3}, {1, 4}, {1, 5}>>] }

\* The vertices joined to both a and b by an edge: the third vertices of the
\* faces on the edge a-b.
OppositeVertices(E, e) ==
    {c \in UNION Range(E) :
        \A x \in E[e] : \E k \in DOMAIN E : E[k] = {x, c}}

\* e.isBoundary()
isBoundary(E, e) == Cardinality(OppositeVertices(E, e)) < 2

\* The edge between two vertices.
EdgeBetween(E, a, b) == CHOOSE k \in DOMAIN E : E[k] = {a, b}

\* geometry->cornerAngle at c in the face (a, b, c), as <<x, n>> with
\* cos(angle) = x / sqrt(n).
CornerCos(P, c, a, b) ==
    LET u == VecSub(P[a], P[c])
        v == VecSub(P[b], P[c])
    IN  <<Dot3(u, v), Dot3(u, u) * Dot3(v, v)>>

\* angle1 + angle2 compared with PI: -1 below, 0 equal, 1 above; the angles
\* given by their cosines x / sqrt(n).
CompareAngleSumWithPi(c1, c2) ==
    LET lhs == IF c1[1] >= 0 THEN c1[1] * c1[1] * c2[2] ELSE -(c1[1] * c1[1] * c2[2])
        rhs == IF c2[1] >= 0 THEN c2[1] * c2[1] * c1[2] ELSE -(c2[1] * c2[1] * c1[2])
    IN  IF lhs + rhs > 0 THEN -1 ELSE IF lhs + rhs = 0 THEN 0 ELSE 1

\* bool isDelaunay(geometry, e): the values it can return.  The two angles are
\* rounded to float before they are added and compared with PI: when their
\* exact sum is PI the rounding decides.
isDelaunay(P, E, e) ==
    LET ab == E[e]
        a == CHOOSE x \in ab : TRUE
        b == CHOOSE x \in ab : x # a
        cd == OppositeVertices(E, e)
        c == CHOOSE x \in cd : TRUE
        d == CHOOSE x \in cd : x # c
        cmp == CompareAngleSumWithPi(CornerCos(P, c, a, b), CornerCos(P, d, a, b))
    IN  IF cmp < 0 THEN {TRUE} ELSE IF cmp > 0 THEN {FALSE} ELSE {TRUE, FALSE}

\* Lines 303-307: the edges of he1, he2, he3, he4 when e.halfedge() runs from
\* `tail` in the face whose third vertex is `third`.
DiamondEdges(E, e, tail, third) ==
    LET tip == CHOOSE x \in E[e] : x # tail
        other == CHOOSE x \in OppositeVertices(E, e) : x # third
    IN  << EdgeBetween(E, tip, third), EdgeBetween(E, third, tail),
           EdgeBetween(E, tail, other), EdgeBetween(E, other, tip) >>

\* The push without the test of inQueue.
PushIfNotQueued_AlwaysPushed(st, e) ==
    <<Append(st[1], e), [st[2] EXCEPT ![e] = TRUE]>>

\* Lines 309-313 (and the three like them): st = <<toCheck, inQueue>>.
PushIfNotQueued(st, e) ==
    IF st[2][e] THEN st
    ELSE <<Append(st[1], e), [st[2] EXCEPT ![e] = TRUE]>>

\* mesh->flip(e): e now joins the two opposite vertices.
FlipEdge(E, e) == [E EXCEPT ![e] = OppositeVertices(E, e)]

flipMax == FlipFactor * Len(delPos)

DelIdle ==
    /\ delPc = "idle"
    /\ delPos = <<>>
    /\ delEnds = <<>>
    /\ toCheck = <<>>
    /\ inQueue = <<>>
    /\ flipCnt = 0

\* Lines 281-293: every edge is queued, in the order of mesh->edges().
fixDelaunay_Enter ==
    /\ delPc = "idle"
    /\ \E m \in DelMeshes :
          /\ delPos' = m.pos
          /\ delEnds' = m.ends
          /\ toCheck' = [k \in DOMAIN m.ends |-> k]
          /\ inQueue' = [k \in DOMAIN m.ends |-> TRUE]
    /\ flipCnt' = 0
    /\ delPc' = "loop"
    /\ UNCHANGED <<lsVars, bctVars, mulVars, parVars, stepVars, diffVars>>

\* Line 300: the values `!e.isBoundary() && !isDelaunay(geometry, e)` can take.
NotDelaunay(P, E, e) ==
    IF isBoundary(E, e) THEN {FALSE} ELSE {~d : d \in isDelaunay(P, E, e)}

\* Lines 294-331: one iteration of the while loop.
fixDelaunay_Iteration ==
    /\ delPc = "loop"
    /\ toCheck # <<>>
    /\ flipCnt < flipMax
    /\ LET e == Head(toCheck)
           popped == <<Tail(toCheck), [inQueue EXCEPT ![e] = FALSE]>>
       IN  \E flipIt \in NotDelaunay(delPos, delEnds, e) :
              IF flipIt
                THEN /\ flipCnt' = flipCnt + 1
                     /\ \E tail \in delEnds[e] : \E third \in OppositeVertices(delEnds, e) :
                           LET he == DiamondEdges(delEnds, e, tail, third)
                               st == PushIfNotQueued(PushIfNotQueued(PushIfNotQueued(
                                         PushIfNotQueued(popped, he[1]), he[2]), he[3]), he[4])
                           IN  /\ toCheck' = st[1]
                               /\ inQueue' = st[2]
                     /\ delEnds' = FlipEdge(delEnds, e)
                ELSE /\ toCheck' = popped[1]
                     /\ inQueue' = popped[2]
                     /\ UNCHANGED <<flipCnt, delEnds>>
    /\ UNCHANGED <<delPc, delPos>>
    /\ UNCHANGED <<lsVars, bctVars, mulVars, parVars, stepVars, diffVars>>

\* The loop condition fails: the queue is empty or flipMax flips were made.
fixDelaunay_Return ==
    /\ delPc = "loop"
    /\ ~(toCheck # <<>> /\ flipCnt < flipMax)
    /\ delPc' = "done"
    /\ UNCHANGED <<delPos, delEnds, toCheck, inQueue, flipCnt>>
    /\ UNCHANGED <<lsVars, bctVars, mulVars, parVars, stepVars, diffVars>>

DelNext == fixDelaunay_Enter \/ fixDelaunay_Iteration \/ fixDelaunay_Return

\* ------------------------------------------------------------------------
\* Specifications
\* ------------------------------------------------------------------------

\* The line search.
LSInit == LSStart /\ BCTIdle /\ MulIdle /\ ParIdle /\ StepIdle /\ DiffIdle /\ DelIdle
SpecLS == LSInit /\ [][LSNext]_vars
\* The loop is sequential code: a step that can be taken is taken.
SpecLSFair == LSInit /\ [][LSNext]_vars /\ WF_vars(LSNext)

\* Construction of the BVH and of the block cluster tree.
Init ==
    /\ LSIdle
    /\ BCTStart(SmallMeshes \cup BigMeshes
                   \cup {MeshOf(Outliers10, UnitMasses(Outliers10)),
                         MeshOf(Lone10, UnitMasses(Lone10))})
    /\ MulIdle /\ ParIdle /\ StepIdle /\ DiffIdle /\ DelIdle
Next == BCTNext
Spec == Init /\ [][Next]_vars

\* The steps of the BlockClusterTree constructor up to the end of its loop,
\* given the BVH.
BCTConstructorNext ==
    \/ BCT_PushRootPair
    \/ splitInadmissibleNodes
    \/ BCT_OrganizePairs

\* Construction with the BlockClusterTree constructor as sequential code: a
\* step of it that can be taken is taken.  The meshes are two of the large
\* ones and the small ones of at most two faces.
FairMeshes ==
    { MeshOf(TwoClusters5, <<1, 2, 1, 1, 2>>),
      MeshOf(ThreeClusters9, <<1, 1, 2, 1, 1, 1, 2, 1, 1>>) }
      \cup {m \in SmallMeshes : Len(m) <= 2}
FairInit == LSIdle /\ BCTStart(FairMeshes) /\ MulIdle /\ ParIdle /\ StepIdle /\ DiffIdle /\ DelIdle
SpecFair == FairInit /\ [][Next]_vars /\ WF_vars(BCTConstructorNext)

\* Construction followed by matrix-vector products.
MulInit == LSIdle /\ BCTStart(MulMeshes) /\ MulIdle /\ ParIdle /\ StepIdle /\ DiffIdle /\ DelIdle
MulNext == BCTNext \/ MultiplyVector
SpecMul == MulInit /\ [][MulNext]_vars

\* Construction with the parallel loop of MultiplyAfPercolated run step by
\* step by the threads.
ParInit == LSIdle /\ BCTStart(BigMeshes) /\ MulIdle /\ ParIdle /\ StepIdle /\ DiffIdle /\ DelIdle
SpecPar == ParInit /\ [][ParNext]_vars

\* Construction of the BVH followed by refits.
RefitInit == LSIdle /\ BCTStart(RefitMeshes) /\ MulIdle /\ ParIdle /\ StepIdle /\ DiffIdle /\ DelIdle
RefitNext == Create6DBVHFromMesh \/ recomputeCentersOfMass
SpecRefit == RefitInit /\ [][RefitNext]_vars

\* The differential of the all-pairs energy.
DiffInit == LSIdle /\ BCTIdle /\ MulIdle /\ ParIdle /\ StepIdle /\ DiffIdle /\ DelIdle
SpecDiff == DiffInit /\ [][DiffNext]_vars

\* fixDelaunay.
DelInit == LSIdle /\ BCTIdle /\ MulIdle /\ ParIdle /\ StepIdle /\ DiffIdle /\ DelIdle
SpecDel == DelInit /\ [][DelNext]_vars

\* Construction followed by one product run step by step.
StepInit == LSIdle /\ BCTStart(BigMeshes) /\ MulIdle /\ ParIdle /\ StepIdle /\ DiffIdle /\ DelIdle
SpecStep == StepInit /\ [][StepNext]_vars

\* ------------------------------------------------------------------------
\* Line search: properties
\* ------------------------------------------------------------------------

\* The energy of the landscape at positions p (p has been evaluated).
EnergyAt(p) ==
    LET i == CHOOSE j \in DOMAIN energyOf : energyOf[j][1] = p
    IN  energyOf[i][2]

\* x * |x|: strictly monotone, so a >= b * sqrt(ss) iff
\* SignedSquare(a) >= SignedSquare(b) * ss.
SignedSquare(x) == x * Abs(x)

\* E0 - E1 >= sigma * delta * gradNorm * gradDot.
ArmijoHolds(E0, E1, d) ==
    SignedSquare(SigmaDen * DeltaDen * (E0 - E1))
        >= SignedSquare(SigmaNum * d * gradDot) * GradNormSq(gradient)

\* C3: whenever LineSearchStep returns delta > 0, the energy at the positions
\* left in the mesh is strictly lower than the energy measured at entry, for
\* every gradient, initial guess and gradDot.
C3_AcceptedStepDecreasesEnergy ==
    (lsPc = "done" /\ retval > 0) => EnergyAt(positions) < initialEnergy

\* C4: if the energy at every trial position is higher than the energy at
\* entry, LineSearchStep accepts no trial: it returns 0 with delta at or
\* below the threshold and every vertex at its position at entry.
C4_AscentDirectionNeverAccepted ==
    (lsPc = "done" /\ \A i \in DOMAIN trials : trials[i][2] > initialEnergy)
        => /\ retval = 0
           /\ \A i \in DOMAIN trials : trials[i][3]
           /\ (trials # <<>> => delta <= LS_STEP_THRESHOLD)
           /\ positions = EntryPositions

\* C5: when the loop ends with delta <= LS_STEP_THRESHOLD, LineSearchStep
\* returns 0 and every vertex position equals its position at entry, however
\* many trial steps were written to the mesh.
C5_FailureRestoresSnapshot ==
    (lsPc = "done" /\ delta <= LS_STEP_THRESHOLD)
        => (retval = 0 /\ positions = EntryPositions)

C5_Witness ==
    /\ lsPc = "done"
    /\ delta <= LS_STEP_THRESHOLD
    /\ Len(trials) >= 2
    /\ retval = 0
    /\ positions = EntryPositions

\* C6: whenever LineSearchStep returns delta > 0 the Armijo condition holds
\* for that delta at the final positions, the step sizes tried are
\* initGuess, initGuess/2, ... and every one before the returned delta failed
\* the condition; a rejected trial always halves delta.
C6_ArmijoAtAcceptedStep ==
    /\ \A i \in DOMAIN trials :
          /\ trials[i][1] * Pow2(i - 1) = initGuess
          /\ trials[i][3] = ~ArmijoHolds(initialEnergy, trials[i][2], trials[i][1])
          /\ (i < Len(trials) => trials[i][3])
    /\ (lsPc = "loop" => delta * Pow2(numBacktracks) = initGuess)
    /\ (lsPc = "done" /\ retval > 0)
          => /\ trials # <<>>
             /\ retval = trials[Len(trials)][1]
             /\ ~trials[Len(trials)][3]
             /\ ArmijoHolds(initialEnergy, EnergyAt(positions), retval)

C6_Witness ==
    /\ lsPc = "done"
    /\ retval > 0
    /\ Len(trials) >= 2
    /\ trials[1][2] < initialEnergy
    /\ trials[1][3]

\* C7: for every finite positive initial step the line search ends after a
\* bounded number of trials, whatever values the energy returns: after k
\* rejected trials initGuess / 2^(k-1) was still above the threshold, and the
\* call returns.
C7_LineSearchTerminates ==
    /\ [](numBacktracks >= 1
            => Pow2(numBacktracks - 1) * LS_STEP_THRESHOLD < initGuess)
    /\ <>(lsPc = "done")

C7_Witness ==
    /\ lsPc = "done"
    /\ numBacktracks >= 2
    /\ initGuess > LS_STEP_THRESHOLD

\* ------------------------------------------------------------------------
\* BVH and block cluster tree: properties
\* ------------------------------------------------------------------------

\* The number of pairs of the list whose first cluster holds face f and whose
\* second cluster holds face g.
CoverCount(pairs, f, g) ==
    Cardinality({k \in DOMAIN pairs :
                    /\ f \in Range(ClusterIndices(nodes, pairs[k][1]))
                    /\ g \in Range(ClusterIndices(nodes, pairs[k][2]))})

\* C1: after the BlockClusterTree constructor returns, every ordered pair of
\* faces (f, g), f = g included, lies in exactly one cluster pair of
\* admissiblePairs and inadmissiblePairs together; while the constructor's
\* loop runs, the same holds with the unresolved pairs counted in.
C1_PairsCoverFaceProductOnce ==
    /\ bctPc \in {"organized", "ready"}
          => \A f \in Faces(mesh), g \in Faces(mesh) :
                CoverCount(admissiblePairs \o inadmissiblePairs, f, g) = 1
    /\ bctPc = "split"
          => \A f \in Faces(mesh), g \in Faces(mesh) :
                CoverCount(admissiblePairs \o inadmissiblePairs \o unresolvedPairs,
                           f, g) = 1

C1_Witness ==
    /\ bctPc = "ready"
    /\ Len(mesh) = 9
    /\ \E k \in DOMAIN admissiblePairs : Len(admissiblePairs[k][1]) >= 2
    /\ \E k \in DOMAIN admissiblePairs : Len(admissiblePairs[k][1]) = 1
    /\ \E k \in DOMAIN inadmissiblePairs :
          NElements(nodes, inadmissiblePairs[k][1]) >= 2

\* C2: the split axis cycles through the six axes 0..5: the root is built
\* with axis 0 and a node built with axis a builds both children with axis
\* (a + 1) mod 6.
C2_SplitAxisCyclesThroughSix ==
    bctPc \notin {"idle", "start"}
        => /\ nodes[Root].splitAxis = 0
           /\ \A p \in DOMAIN nodes :
                 nodes[p].nodeType = "Interior"
                    => \A i \in {0, 1} :
                          nodes[Child(p, i)].splitAxis = (nodes[p].splitAxis + 1) % 6

Dot(u, v) == SumSeq([i \in 1 .. Cardinality(DOMAIN u) |-> u[i - 1] * v[i - 1]])

\* C8: the operator A is symmetric: <u, A v> = <A u, v> for the two vectors
\* multiplied.
C8_OperatorSymmetric ==
    Len(mulIn) = 2 => Dot(mulIn[1], mulOut[2]) = Dot(mulOut[1], mulIn[2])

C8_Witness ==
    /\ Len(mulIn) = 2
    /\ admissiblePairs # <<>>
    /\ \E f \in DOMAIN Af_1 : Af_1[f] # 0
    /\ mulIn[1] # mulIn[2]
    /\ Dot(mulIn[1], mulOut[2]) < 0
    /\ \E k \in DOMAIN admissiblePairs :
          /\ \E i \in Range(ClusterIndices(nodes, admissiblePairs[k][1])) : mulIn[1][i] # 0
          /\ \E j \in Range(ClusterIndices(nodes, admissiblePairs[k][2])) : mulIn[2][j] # 0

\* C9: the operator A is positive semi-definite: <v, A v> >= 0 for every
\* vector multiplied.
C9_OperatorPositiveSemiDefinite ==
    \A k \in DOMAIN mulIn : Dot(mulIn[k], mulOut[k]) >= 0

C9_Witness ==
    /\ Len(mulIn) = 2
    /\ admissiblePairs # <<>>
    /\ \E f \in DOMAIN Af_1 : Af_1[f] # 0
    /\ \E f \in DOMAIN mulIn[2] : mulIn[2][f] = -1
    /\ \E f \in DOMAIN mulIn[2] : mulIn[2][f] = 1
    /\ Dot(mulIn[2], mulOut[2]) > 0

\* ------------------------------------------------------------------------
\* The parallel loop: properties
\* ------------------------------------------------------------------------

\* C10: in the parallel loop of MultiplyAfPercolated no two iterations write
\* the same accumulator: nodeIDs are unique, every write of iteration i is to
\* the B of the node whose nodeID is i, no wtDot is written inside the loop,
\* and no location written by one iteration is read or written by another;
\* so the loop leaves the sums of the sequential run.
C10_IterationsWriteOwnAccumulatorOnly ==
    /\ bctPc \notin {"idle", "start"}
          => \A p \in DOMAIN nodes, q \in DOMAIN nodes :
                nodes[p].nodeID = nodes[q].nodeID => p = q
    /\ \A a \in accesses : a[4] = "w" => (a[2] = "B" /\ a[3] = a[1])
    /\ \A a \in accesses, b \in accesses :
          (a[1] # b[1] /\ a[2] = b[2] /\ a[3] = b[3]) => (a[4] = "r" /\ b[4] = "r")
    /\ parPc = "done"
          => LET ones == [f \in DOMAIN Af_1 |-> 1]
             IN  Af_1 = MultiplyAfPercolated(nodes, admissibleByCluster, ones, ones)

C10_Witness ==
    /\ parPc = "loop"
    /\ thr[1].phase = "write"
    /\ thr[2].phase = "write"
    /\ thr[1].k >= 2
    /\ \E a \in accesses : a[4] = "w" /\ a[1] \notin {thr[1].iter, thr[2].iter}
    /\ \E a \in accesses : a[2] = "wtDot" /\ a[1] = thr[1].iter /\ a[3] = thr[2].iter

\* ------------------------------------------------------------------------
\* Products step by step: properties
\* ------------------------------------------------------------------------

C12_ConstructionTerminates ==
    /\ (bctPc = "bvh") ~> (bctPc = "organized")
    /\ [](bctPc \in {"organized", "ready"} => unresolvedPairs = <<>>)

C12_Witness ==
    /\ bctPc = "ready"
    /\ unresolvedPairs = <<>>
    /\ \E k \in DOMAIN admissiblePairs : Len(admissiblePairs[k][1]) >= 2
    /\ \E p \in DOMAIN nodes : nodes[p].nodeType = "Interior"

\* C13: splitInadmissibleNodes treats each unresolved pair by the first rule
\* that matches: (1) a side with 0 elements: dropped; (2) both sides
\* singletons: inadmissible; (3) isPairAdmissible: admissible; (4) a side of
\* at most 1 element or |I| + |J| <= 8: inadmissible; (5) otherwise replaced
\* by the four child pairs.
C13_ClassificationOrder ==
    [][(bctPc = "split" /\ Len(unresolvedPairs) > 0) =>
        \A k \in DOMAIN unresolvedPairs :
            LET pr == unresolvedPairs[k]
                s1 == NElements(nodes, pr[1])
                s2 == NElements(nodes, pr[2])
                inAdm == pr \in Range(admissiblePairs')
                inInadm == pr \in Range(inadmissiblePairs')
                children == { <<Child(pr[1], i), Child(pr[2], j)>> : i \in {0, 1}, j \in {0, 1} }
                expanded == children \subseteq Range(unresolvedPairs')
            IN  IF s1 = 0 \/ s2 = 0 THEN ~inAdm /\ ~inInadm /\ ~expanded
                ELSE IF s1 = 1 /\ s2 = 1 THEN inInadm /\ ~inAdm /\ ~expanded
                ELSE IF isPairAdmissible(nodes, pr, sepCoeff) THEN inAdm /\ ~inInadm /\ ~expanded
                ELSE IF s1 <= 1 \/ s2 <= 1 \/ s1 + s2 <= 8 THEN inInadm /\ ~inAdm /\ ~expanded
                ELSE expanded /\ ~inAdm /\ ~inInadm]_vars

\* Two distinct singletons, admissible by the test, in the inadmissible list;
\* an admissible pair with a singleton side and one of at most 8 elements; a
\* dropped pair.
C13_Witness ==
    /\ bctPc = "ready"
    /\ \E k \in DOMAIN inadmissiblePairs :
          /\ NElements(nodes, inadmissiblePairs[k][1]) = 1
          /\ NElements(nodes, inadmissiblePairs[k][2]) = 1
          /\ isPairAdmissible(nodes, inadmissiblePairs[k], sepCoeff)
    /\ \E k \in DOMAIN admissiblePairs :
          NElements(nodes, admissiblePairs[k][1]) = 1
    /\ \E k \in DOMAIN admissiblePairs :
          /\ NElements(nodes, admissiblePairs[k][1]) >= 2
          /\ NElements(nodes, admissiblePairs[k][2]) >= 2
          /\ NElements(nodes, admissiblePairs[k][1])
                + NElements(nodes, admissiblePairs[k][2]) <= 8

\* Nodes that hold faces: the clusters isPairAdmissible is called with.
Clusters == {p \in DOMAIN nodes : nodes[p].nodeType \in {"Leaf", "Interior"}}

\* The box of the node at p contains the center of mass of the node at q.
BoxHoldsCenter(p, q) ==
    \A k \in 1 .. 3 :
        /\ nodes[p].minCoords[k] * nodes[q].totalMass <= nodes[q].comNum[k]
        /\ nodes[q].comNum[k] <= nodes[p].maxCoords[k] * nodes[q].totalMass

\* max(diag(I)/d, diag(J)/d) < theta, compared on the squares with the
\* denominators of the centers of mass and of theta multiplied out.
MaxRatioBelowTheta(p, q) ==
    LET mm == nodes[p].totalMass * nodes[q].totalMass
    IN  Max2(DiagSq(nodes[p]), DiagSq(nodes[q])) * mm * mm * sepCoeff[2] * sepCoeff[2]
          < sepCoeff[1] * sepCoeff[1]
              * CrossDistSq(nodes[p].comNum, nodes[p].totalMass,
                            nodes[q].comNum, nodes[q].totalMass)

\* C14: isPairAdmissible(I, J, theta) is false for I = J, false when the box
\* of either node contains the other's center of mass, otherwise true exactly
\* when max(diag(I)/d, diag(J)/d) < theta; the result is the same for (I, J)
\* and (J, I).
C14_AdmissibilityTest ==
    bctPc = "bvh" =>
        \A p \in Clusters, q \in Clusters :
            /\ isPairAdmissible(nodes, <<p, q>>, sepCoeff)
                  = IF p = q THEN FALSE
                    ELSE IF BoxHoldsCenter(p, q) \/ BoxHoldsCenter(q, p) THEN FALSE
                    ELSE MaxRatioBelowTheta(p, q)
            /\ isPairAdmissible(nodes, <<p, q>>, sepCoeff)
                  = isPairAdmissible(nodes, <<q, p>>, sepCoeff)

\* One tree with an admissible pair, a pair refused by the box test of the
\* second cluster alone although both ratios pass, and a pair refused by the
\* ratio of the second cluster alone.
C14_Witness ==
    /\ bctPc = "bvh"
    /\ \E p \in Clusters, q \in Clusters : isPairAdmissible(nodes, <<p, q>>, sepCoeff)
    /\ \E p \in Clusters, q \in Clusters :
          /\ p # q
          /\ ~BoxHoldsCenter(p, q)
          /\ BoxHoldsCenter(q, p)
          /\ MaxRatioBelowTheta(p, q)
    /\ \E p \in Clusters, q \in Clusters :
          /\ p # q
          /\ ~BoxHoldsCenter(p, q)
          /\ ~BoxHoldsCenter(q, p)
          /\ DiagSq(nodes[p]) < DiagSq(nodes[q])
          /\ ~MaxRatioBelowTheta(p, q)
          /\ \E r \in Clusters :
                DiagSq(nodes[r]) <= DiagSq(nodes[p]) /\ MaxRatioBelowTheta(p, r)

\* ------------------------------------------------------------------------
\* The built BVH: properties
\* ------------------------------------------------------------------------

\* Create6DBVHFromMesh has returned.
Built == bctPc \notin {"idle", "start", "unfinished"}

\* The nodes of the subtree of the node at p, p included.
Subtree(p) == {q \in DOMAIN nodes : Len(q) >= Len(p) /\ SubSeq(q, 1, Len(p)) = p}

\* The children of the node at p.
ChildrenOf(p) == {q \in DOMAIN nodes : Len(q) = Len(p) + 1 /\ SubSeq(q, 1, Len(p)) = p}

\* C15: after Create6DBVHFromMesh node ids are a pre-order numbering: the
\* root has nodeID 0, ids are unique, the subtree of every node N holds
\* exactly the ids N.nodeID .. N.nodeID + N.numNodesInBranch - 1, the lesser
\* child comes right after its parent and the greater child right after the
\* lesser child's subtree, and numNodesInBranch is 1 + the sum over the
\* children; so every nodeID is an index into a vector of
\* root.numNodesInBranch entries, as admissibleByCluster is.
C15_PreOrderNodeIDs ==
    Built =>
        /\ nodes[Root].nodeID = 0
        /\ \A p \in DOMAIN nodes, q \in DOMAIN nodes :
              nodes[p].nodeID = nodes[q].nodeID => p = q
        /\ \A p \in DOMAIN nodes :
              /\ {nodes[q].nodeID : q \in Subtree(p)}
                    = nodes[p].nodeID .. (nodes[p].nodeID + nodes[p].numNodesInBranch - 1)
              /\ nodes[p].numNodesInBranch = Cardinality(Subtree(p))
              /\ ChildrenOf(p) # {} =>
                    /\ nodes[p].numNodesInBranch
                          = 1 + nodes[Child(p, 0)].numNodesInBranch
                              + nodes[Child(p, 1)].numNodesInBranch
                    /\ nodes[Child(p, 0)].nodeID = nodes[p].nodeID + 1
                    /\ nodes[Child(p, 1)].nodeID
                          = nodes[Child(p, 0)].nodeID + nodes[Child(p, 0)].numNodesInBranch
              /\ nodes[p].nodeID \in 0 .. nodes[Root].numNodesInBranch - 1
        /\ bctPc \in {"organized", "ready"}
              => DOMAIN admissibleByCluster = {nodes[p].nodeID : p \in DOMAIN nodes}

C15_Witness ==
    /\ bctPc = "ready"
    /\ \E p \in DOMAIN nodes : nodes[p].nodeType = "Empty" /\ nodes[p].nodeID > 0
    /\ \E p \in DOMAIN nodes :
          /\ nodes[p].nodeType = "Interior"
          /\ nodes[Child(p, 0)].nodeType = "Interior"
          /\ nodes[Child(p, 1)].nodeType = "Interior"
          /\ nodes[Child(p, 1)].nodeID > nodes[p].nodeID + 2
          /\ nodes[Child(p, 1)].nodeID + nodes[Child(p, 1)].numNodesInBranch
                < nodes[Root].numNodesInBranch

\* The leaves of the subtree of the node at p.
LeavesOf(p) == {q \in Subtree(p) : nodes[q].nodeType = "Leaf"}

\* The body a leaf was built from.
BodyOf(q) == mesh[nodes[q].elementID + 1]

\* The sum of the masses of the bodies of a set of leaves.
RECURSIVE MassOfLeaves(_)
MassOfLeaves(S) ==
    IF S = {} THEN 0
    ELSE LET q == CHOOSE x \in S : TRUE
         IN  BodyOf(q).mass + MassOfLeaves(S \ {q})

\* C16: in a built BVH the totalMass of every node is the sum of the masses of
\* the leaves of its subtree: 0 for an Empty node, the body's mass for a Leaf,
\* the sum of the children's totalMass for an Interior node.
C16_TotalMassIsSumOfLeaves ==
    Built =>
        \A p \in DOMAIN nodes :
            /\ nodes[p].totalMass = MassOfLeaves(LeavesOf(p))
            /\ nodes[p].nodeType = "Empty" => nodes[p].totalMass = 0
            /\ nodes[p].nodeType = "Leaf" => nodes[p].totalMass = BodyOf(p).mass
            /\ nodes[p].nodeType = "Interior"
                  => nodes[p].totalMass = nodes[Child(p, 0)].totalMass
                                            + nodes[Child(p, 1)].totalMass

C16_Witness ==
    /\ bctPc = "bvh"
    /\ \E p \in DOMAIN nodes : nodes[p].nodeType = "Empty"
    /\ \E p \in DOMAIN nodes :
          /\ p # Root
          /\ nodes[p].nodeType = "Interior"
          /\ nodes[p].totalMass > Cardinality(LeavesOf(p))
          /\ nodes[Child(p, 0)].totalMass # nodes[Child(p, 1)].totalMass
          /\ nodes[Child(p, 1)].totalMass > 0

\* C17: in a built BVH the box [minCoords, maxCoords] of every Leaf and
\* Interior node contains the barycenter of every leaf of its subtree, also
\* when one of the node's children is an Empty node.
C17_BoxContainsLeafBarycenters ==
    Built =>
        \A p \in Clusters : \A q \in LeavesOf(p) : \A k \in 1 .. 3 :
            /\ nodes[p].minCoords[k] <= BodyOf(q).point[k]
            /\ BodyOf(q).point[k] <= nodes[p].maxCoords[k]

\* An Interior node with two leaves or more whose greater child is Empty, its
\* unassigned box inverted; and one with two non-empty children.
C17_Witness ==
    /\ bctPc = "bvh"
    /\ \E p \in Clusters :
          /\ nodes[p].nodeType = "Interior"
          /\ nodes[Child(p, 1)].nodeType = "Empty"
          /\ nodes[Child(p, 1)].minCoords[1] > nodes[Child(p, 1)].maxCoords[1]
          /\ Cardinality(LeavesOf(p)) >= 2
    /\ \E p \in Clusters :
          /\ nodes[p].nodeType = "Interior"
          /\ nodes[Child(p, 0)].nodeType = "Interior"
          /\ nodes[Child(p, 1)].nodeType = "Leaf"

\* The faces whose bodies the constructor of the node at path p was given:
\* all of them at the root, and below an Interior node those on p's side of
\* the node's splitting plane.
RECURSIVE BodiesAt(_)
BodiesAt(p) ==
    IF p = Root THEN DOMAIN mesh
    ELSE LET parent == SubSeq(p, 1, Len(p) - 1)
             lesser == {i \in BodiesAt(parent) :
                           2 * GetCoordFromBody(mesh[i], nodes[parent].splitAxis)
                               <= nodes[parent].splitPoint2}
         IN  IF p[Len(p)] = 0 THEN lesser ELSE BodiesAt(parent) \ lesser

\* The faces held by the leaves of the subtree at p.
FacesBelow(p) == {nodes[q].elementID + 1 : q \in LeavesOf(p)}

\* C19: the BVH construction partitions the bodies: a node given no body is
\* Empty, one body a Leaf holding it, two or more an Interior node with
\* exactly two children; every body of an Interior node goes to exactly one
\* child, the lesser one iff its coordinate is at most splitPoint; and every
\* face is the elementID of exactly one Leaf.
C19_ConstructionPartitionsBodies ==
    Built =>
        /\ \A p \in DOMAIN nodes :
              LET n == Cardinality(BodiesAt(p))
              IN  /\ nodes[p].nodeType = "Empty" <=> n = 0
                  /\ nodes[p].nodeType = "Leaf" <=> n = 1
                  /\ nodes[p].nodeType = "Interior" <=> n >= 2
                  /\ nodes[p].nodeType = "Leaf"
                        => BodiesAt(p) = {nodes[p].elementID + 1}
                  /\ nodes[p].nodeType = "Interior"
                        => /\ ChildrenOf(p) = {Child(p, 0), Child(p, 1)}
                           /\ nodes[p].nChildren = 2
                           /\ FacesBelow(Child(p, 0)) \cup FacesBelow(Child(p, 1))
                                 = BodiesAt(p)
                           /\ FacesBelow(Child(p, 0)) \cap FacesBelow(Child(p, 1)) = {}
                           /\ \A i \in BodiesAt(p) :
                                 i \in FacesBelow(Child(p, 0))
                                    <=> 2 * GetCoordFromBody(mesh[i], nodes[p].splitAxis)
                                           <= nodes[p].splitPoint2
                  /\ nodes[p].nodeType # "Interior" => ChildrenOf(p) = {}
                  /\ Cardinality(LeavesOf(p)) = n
        /\ \A i \in DOMAIN mesh :
              Cardinality({q \in DOMAIN nodes :
                              nodes[q].nodeType = "Leaf" /\ nodes[q].elementID + 1 = i}) = 1

\* A tree of five faces or more with an Empty node, a Leaf and an Interior
\* node below the root, and a body lying on a splitting plane.
C19_Witness ==
    /\ bctPc = "bvh"
    /\ Len(mesh) >= 5
    /\ \E p \in DOMAIN nodes : nodes[p].nodeType = "Empty"
    /\ \E p \in DOMAIN nodes :
          /\ p # Root
          /\ nodes[p].nodeType = "Interior"
          /\ nodes[Child(p, 1)].nodeType = "Leaf"
    /\ \E p \in DOMAIN nodes :
          /\ nodes[p].nodeType = "Interior"
          /\ \E i \in BodiesAt(p) :
                2 * GetCoordFromBody(mesh[i], nodes[p].splitAxis) = nodes[p].splitPoint2

\* The sum of totalMass * v[elementID] over a set of leaves.
RECURSIVE WeightedSumOfLeaves(_, _)
WeightedSumOfLeaves(S, v) ==
    IF S = {} THEN 0
    ELSE LET q == CHOOSE x \in S : TRUE
         IN  nodes[q].totalMass * v[nodes[q].elementID] + WeightedSumOfLeaves(S \ {q}, v)

\* C20: after percolateWtDot on the root of the data tree, the wtDot of every
\* node is the sum over the leaves L of its subtree of L.totalMass *
\* v[L.elementID]; it is 0 at an Empty node.
C20_WtDotIsWeightedLeafSum ==
    stepPc = "admissible" =>
        \A p \in DOMAIN nodes :
            /\ dataWtDot[nodes[p].nodeID] = WeightedSumOfLeaves(LeavesOf(p), stepV)
            /\ nodes[p].nodeType = "Empty" => dataWtDot[nodes[p].nodeID] = 0

\* percolateWtDot has run on a tree with an Empty node and on a vector of
\* unequal entries, and an Interior node below the root has a non-zero wtDot
\* that is not the wtDot of one of its children.
C20_Witness ==
    /\ stepPc = "admissible"
    /\ \E f, g \in DOMAIN stepV : stepV[f] # stepV[g]
    /\ \E p \in DOMAIN nodes : nodes[p].nodeType = "Empty"
    /\ \E p \in DOMAIN nodes :
          /\ p # Root
          /\ nodes[p].nodeType = "Interior"
          /\ dataWtDot[nodes[p].nodeID] # 0
          /\ dataWtDot[nodes[p].nodeID] # dataWtDot[nodes[Child(p, 0)].nodeID]
          /\ dataWtDot[nodes[p].nodeID] # dataWtDot[nodes[Child(p, 1)].nodeID]

\* ------------------------------------------------------------------------
\* What the products write
\* ------------------------------------------------------------------------

\* The BVH nodes, the two pair lists and the first-cluster buckets are left
\* as they are by the step.
TreeAndPairsUnchanged ==
    UNCHANGED <<nodes, admissiblePairs, inadmissiblePairs, admissibleByCluster>>

\* The step belongs to a product called on the constructed tree:
\* MultiplyAdmissiblePercolated (with MultiplyAfPercolated inside it) or
\* MultiplyInadmissible.
StepOfProduct == stepPc # "idle" \/ stepPc' # "idle"

\* The step is the call MultiplyAfPercolated(Af_1, Af_1) of PremultiplyAf1,
\* entered with Af_1 all ones.
StepOfPremultiply == bctPc = "organized" /\ bctPc' = "ready"

\* C18 as stated: every call of MultiplyAfPercolated,
\* MultiplyAdmissiblePercolated and MultiplyInadmissible leaves the BVH nodes,
\* the pair lists, the buckets and Af_1 as they were at its entry.
C18_MultipliesLeaveAf1 ==
    [][/\ StepOfProduct => TreeAndPairsUnchanged /\ UNCHANGED Af_1
       /\ StepOfPremultiply
             => /\ TreeAndPairsUnchanged
                /\ Af_1' = [f \in 0 .. NElements(nodes, Root) - 1 |-> 1]]_vars

\* C18, amended: the products leave the BVH nodes, the pair lists and the
\* buckets unchanged, and Af_1 too unless Af_1 is the output vector of the
\* call, as in PremultiplyAf1; they write only the output vector and a data
\* tree that exists only inside the call, and leave the input vector alone.
C18_MultipliesWriteOnlyOutput ==
    [][/\ StepOfProduct => TreeAndPairsUnchanged /\ UNCHANGED <<Af_1, mesh, sepCoeff>>
       /\ StepOfPremultiply => TreeAndPairsUnchanged /\ UNCHANGED <<mesh, sepCoeff>>
       /\ stepPc # "idle" => UNCHANGED stepV
       /\ parPc' = "idle" => dataB' = <<>> /\ dataWtDot' = <<>>]_vars

\* Both products have run on a tree with admissible and inadmissible pairs:
\* the output is written, and Af_1 holds what the premultiply left in it.
C18_Witness ==
    /\ stepPc = "done"
    /\ admissiblePairs # <<>>
    /\ inadmissiblePairs # <<>>
    /\ \E f \in DOMAIN stepB : stepB[f] # 0
    /\ \E f \in DOMAIN Af_1 : Af_1[f] \notin {0, 1}
    /\ dataB = <<>>

\* ------------------------------------------------------------------------
\* The downward pass
\* ------------------------------------------------------------------------

\* The node at p and its ancestors.
AncestorsOrSelf(p) == {SubSeq(p, 1, k) : k \in 0 .. Len(p)}

\* The sum of the B accumulated by the loop at a set of nodes.
RECURSIVE SumOfB(_)
SumOfB(S) ==
    IF S = {} THEN 0
    ELSE LET q == CHOOSE x \in S : TRUE
         IN  dataB[nodes[q].nodeID] + SumOfB(S \ {q})

\* C21: after percolateJ from the root, for every Leaf L the entry
\* b[L.elementID] is L.totalMass times the sum of the B accumulated by the
\* loop at L and at every ancestor of L; the entry is assigned, so what b held
\* before (here all ones) has no part in it.
C21_LeafOutputIsMassTimesPathSum ==
    parPc = "done" =>
        \A p \in DOMAIN nodes :
            nodes[p].nodeType = "Leaf"
                => Af_1[nodes[p].elementID]
                      = nodes[p].totalMass * SumOfB(AncestorsOrSelf(p))

\* percolateJ has run on a b of ones: a leaf of mass above 1 has a non-zero
\* B at two nodes of its path or more, one of them a proper ancestor, and its
\* entry is no longer 1.
C21_Witness ==
    /\ parPc = "done"
    /\ \E p \in DOMAIN nodes :
          /\ nodes[p].nodeType = "Leaf"
          /\ nodes[p].totalMass > 1
          /\ Cardinality({a \in AncestorsOrSelf(p) : dataB[nodes[a].nodeID] # 0}) >= 2
          /\ Af_1[nodes[p].elementID] > 1

\* ------------------------------------------------------------------------
\* Refit
\* ------------------------------------------------------------------------

\* The sum of mass * barycenter of the bodies of a set of leaves.
RECURSIVE MomentOfLeaves(_)
MomentOfLeaves(S) ==
    IF S = {} THEN <<0, 0, 0>>
    ELSE LET q == CHOOSE x \in S : TRUE
         IN  VecAdd(VecScale(BodyOf(q).mass, BodyOf(q).point), MomentOfLeaves(S \ {q}))

\* The tree shape and the fields a refit must not touch.
Partition(T) ==
    [p \in DOMAIN T |->
        <<T[p].nodeType, T[p].nChildren, T[p].nodeID, T[p].elementID,
          T[p].splitAxis, T[p].splitPoint2, T[p].numNodesInBranch>>]

\* totalMass, centerOfMass (as totalMass * centerOfMass) and bounds of every
\* node agree with the current areas and barycenters of the faces.
AggregatesHold ==
    /\ \A p \in DOMAIN nodes :
          /\ nodes[p].totalMass = MassOfLeaves(LeavesOf(p))
          /\ nodes[p].comNum = MomentOfLeaves(LeavesOf(p))
    /\ \A p \in Clusters : \A q \in LeavesOf(p) : \A k \in 1 .. 3 :
          /\ nodes[p].minCoords[k] <= BodyOf(q).point[k]
          /\ BodyOf(q).point[k] <= nodes[p].maxCoords[k]
    /\ \A p \in DOMAIN nodes :
          nodes[p].nodeType = "Leaf"
              => nodes[p].minCoords = BodyOf(p).point /\ nodes[p].maxCoords = BodyOf(p).point

\* C22: recomputeCentersOfMass does not re-partition: the tree shape and
\* every node's nodeType, children, nodeID, elementID, splitAxis, splitPoint
\* and numNodesInBranch are as before, and afterwards totalMass, centerOfMass
\* and bounds of every node satisfy the aggregate invariants for the current
\* face areas and barycenters.
C22_RefitKeepsPartition ==
    [][bctPc' = "refit" => Partition(nodes') = Partition(nodes) /\ AggregatesHold']_vars

\* A refit of a five-face tree with an Empty node, after the faces moved and
\* changed area: a leaf's bounds and the root's mass are no longer those of
\* the mesh the tree was built from.
C22_Witness ==
    /\ bctPc = "refit"
    /\ Len(mesh) = 5
    /\ mesh # MeshOf(Tied5, <<2, 1, 1, 1, 1>>)
    /\ \E p \in DOMAIN nodes : nodes[p].nodeType = "Empty"
    /\ nodes[Root].totalMass # 6
    /\ \E p \in DOMAIN nodes :
          /\ nodes[p].nodeType = "Interior"
          /\ \E i \in BodiesAt(p) : i \notin FacesBelow(p)

\* ------------------------------------------------------------------------
\* The differential of the all-pairs energy
\* ------------------------------------------------------------------------

\* The additions Differential has to make: one for every ordered pair of
\* distinct faces and every vertex of either face.
ExpectedAdditions ==
    {<<f1, f2, v>> \in (DOMAIN dfFaces) \X (DOMAIN dfFaces) \X DiffVertices(dfFaces) :
        f1 # f2 /\ v \in Range(dfFaces[f1]) \cup Range(dfFaces[f2])}

\* The sum of the gradients of a set of additions.
RECURSIVE SumOfGradients(_)
SumOfGradients(S) ==
    IF S = {} THEN <<0, 0, 0>>
    ELSE LET t == CHOOSE x \in S : TRUE
         IN  VecAdd(tpe_gradient_pair(t[1], t[2], t[3]), SumOfGradients(S \ {t}))

\* C23: Differential visits every ordered pair of distinct faces once, skips
\* f1 = f2, and for each pair adds one gradient to the row of each vertex of
\* the union of the two faces' vertices, a shared vertex once; the gradients
\* are added to what output held.
C23_DifferentialAddsOncePerVertex ==
    dfPc = "done" =>
        /\ \A t \in ExpectedAdditions :
              Cardinality({k \in DOMAIN dfLog : dfLog[k] = t}) = 1
        /\ \A k \in DOMAIN dfLog : dfLog[k] \in ExpectedAdditions
        /\ \A r \in DiffVertices(dfFaces) :
              dfOutput[r] = VecAdd(dfEntry[r],
                                   SumOfGradients({t \in ExpectedAdditions : t[3] = r}))

\* Differential has returned on three faces of which two share an edge, two
\* share one vertex and two share none, output holding other rows at entry.
C23_Witness ==
    /\ dfPc = "done"
    /\ Len(dfFaces) = 3
    /\ \E r \in DOMAIN dfEntry : dfEntry[r] # <<0, 0, 0>>
    /\ \E f1, f2 \in DOMAIN dfFaces :
          Cardinality(Range(dfFaces[f1]) \cap Range(dfFaces[f2])) = 2
    /\ \E f1, f2 \in DOMAIN dfFaces :
          Cardinality(Range(dfFaces[f1]) \cap Range(dfFaces[f2])) = 1
    /\ \E f1, f2 \in DOMAIN dfFaces :
          Range(dfFaces[f1]) \cap Range(dfFaces[f2]) = {}

\* ------------------------------------------------------------------------
\* fixDelaunay
\* ------------------------------------------------------------------------

\* inQueue[e] is true exactly for the edges in toCheck, each there once.
QueueMatchesFlags ==
    /\ \A i, j \in DOMAIN toCheck : toCheck[i] = toCheck[j] => i = j
    /\ \A e \in DOMAIN inQueue : inQueue[e] <=> e \in Range(toCheck)

\* What one iteration of the loop does to the queue and the counter.
IterationEffect ==
    /\ Len(toCheck') <= Len(toCheck) - 1 + 4
    /\ SubSeq(toCheck', 1, Len(toCheck) - 1) = Tail(toCheck)
    /\ flipCnt' \in {flipCnt, flipCnt + 1}
    /\ flipCnt' = flipCnt => toCheck' = Tail(toCheck) /\ delEnds' = delEnds
    /\ delEnds' # delEnds => flipCnt' = flipCnt + 1

\* The flips still allowed, then the length of the queue: every iteration
\* lowers the pair in the lexicographic order.
MeasureDecreases ==
    \/ flipMax - flipCnt' < flipMax - flipCnt /\ flipMax - flipCnt' >= 0
    \/ flipCnt' = flipCnt /\ Len(toCheck') < Len(toCheck)

\* C30: fixDelaunay terminates: it makes at most 100 * nVertices flips, every
\* iteration takes one edge from the queue and adds at most four, and only
\* when it flips, so that every iteration uses up a flip or shortens the
\* queue; no edge is in the queue twice: inQueue[e] is true exactly for the
\* queued edges.
C30_FixDelaunayTerminates ==
    /\ [](flipCnt <= flipMax)
    /\ [](QueueMatchesFlags)
    /\ [][delPc = "loop" /\ delPc' = "loop" => IterationEffect /\ MeasureDecreases]_vars
    /\ [][delPc = "loop" /\ delPc' = "done"
             => toCheck = <<>> \/ flipCnt = flipMax]_vars

\* The loop was left through the limit on the flips: flipMax flips were made
\* and edges are still queued.
C30_Witness ==
    /\ delPc = "done"
    /\ flipCnt = flipMax
    /\ flipCnt > 0
    /\ toCheck # <<>>

\* ------------------------------------------------------------------------
\* The recursion of the BVH constructor
\* ------------------------------------------------------------------------

\* The proper ancestors of the node at p.
ProperAncestors(p) == AncestorsOrSelf(p) \ {p}

\* The tree the constructor has made or is still making.
TreeMade == bctPc \notin {"idle", "start"}

\* A constructor call given the bodies and the axis of one of the calls it
\* is nested in: the constructor is a function of the two, so the calls
\* repeat without end.
RepeatedCall(p) ==
    /\ Cardinality(BodiesAt(p)) >= 2
    /\ \E q \in ProperAncestors(p) :
          /\ nodes[q].splitAxis = nodes[p].splitAxis
          /\ BodiesAt(q) = BodiesAt(p)

\* C24: the BVH construction terminates for every finite list of bodies,
\* bodies with the same coordinate on the split axis or the same barycenter
\* included: no constructor call is given the bodies and the axis of a call
\* it is nested in, and no call is left unfinished.
C24_ConstructionTerminates ==
    TreeMade =>
        /\ bctPc # "unfinished"
        /\ \A p \in DOMAIN nodes : ~RepeatedCall(p)

\* The sorted coordinates along `axis` of the bodies in S, the array coords
\* of AxisSplittingPlane.
CoordsOf(S, axis) ==
    LET points == SelectSeq(mesh, LAMBDA b : b.elementID + 1 \in S)
    IN  SortCoords([i \in DOMAIN points |-> GetCoordFromBody(points[i], axis)])

\* splitIndex (1-based) is none of -1 and the last index.
SplitIndexBeforeLast(coords) ==
    Len(coords) >= 2 =>
        /\ SplitIndex(coords) >= 1
        /\ SplitIndex(coords) <= Len(coords) - 1

\* C25: for two bodies or more AxisSplittingPlane selects a split index that
\* is at most n - 2 (0-based; never the last index, never -1), so that the
\* read of coords[splitIndex + 1] is inside the array, and the lesser child
\* of an Interior node is never empty.  Checked on the call about to be made
\* for the root and on every call made for a node of the tree.
C25_SplitIndexNeverLast ==
    /\ bctPc = "start" =>
          \A axis \in 0 .. 2 : SplitIndexBeforeLast(CoordsOf(DOMAIN mesh, axis))
    /\ TreeMade =>
          \A p \in DOMAIN nodes :
              LET coords == CoordsOf(BodiesAt(p), nodes[p].splitAxis)
              IN  /\ SplitIndexBeforeLast(coords)
                  /\ nodes[p].nodeType = "Interior" =>
                        /\ Len(coords) >= 2
                        /\ nodes[p].splitPoint2
                              = coords[SplitIndex(coords)] + coords[SplitIndex(coords) + 1]
                        /\ BodiesAt(Child(p, 0)) # {}
                        /\ nodes[Child(p, 0)].nodeType # "Empty"

\* A finished tree with an Interior node whose bodies all have the same
\* coordinate on its split axis (index 0 is selected and the greater child
\* is Empty) and an Interior node split after its second body or later.
C25_Witness ==
    /\ Built
    /\ \E p \in DOMAIN nodes :
          /\ nodes[p].nodeType = "Interior"
          /\ LET coords == CoordsOf(BodiesAt(p), nodes[p].splitAxis)
             IN  coords[1] = coords[Len(coords)] /\ SplitIndex(coords) = 1
          /\ nodes[Child(p, 1)].nodeType = "Empty"
    /\ \E p \in DOMAIN nodes :
          /\ nodes[p].nodeType = "Interior"
          /\ SplitIndex(CoordsOf(BodiesAt(p), nodes[p].splitAxis)) >= 2

\* C26: splitInadmissibleNodes expands a pair only when both clusters have
\* two elements or more, so both are Interior nodes with exactly two
\* children: children[0] and children[1] are never read on a Leaf or an
\* Empty node.
C26_ExpandedClustersAreInterior ==
    /\ bctPc # "fault"
    /\ bctPc = "split" =>
          \A k \in DOMAIN unresolvedPairs :
              LET pr == unresolvedPairs[k]
              IN  ClassifyPair(nodes, pr, sepCoeff) = "expand" =>
                    \A c \in {pr[1], pr[2]} :
                        /\ NElements(nodes, c) >= 2
                        /\ nodes[c].nodeType = "Interior"
                        /\ nodes[c].nChildren = 2
                        /\ Child(c, 0) \in DOMAIN nodes
                        /\ Child(c, 1) \in DOMAIN nodes

\* A list of pairs below the root pair with a pair that is expanded and a
\* pair of a Leaf and a cluster of eight elements or more that is neither
\* admissible nor expanded.
C26_Witness ==
    /\ bctPc = "split"
    /\ \E k \in DOMAIN unresolvedPairs :
          /\ unresolvedPairs[k][1] # Root
          /\ ClassifyPair(nodes, unresolvedPairs[k], sepCoeff) = "expand"
    /\ \E k \in DOMAIN unresolvedPairs :
          /\ nodes[unresolvedPairs[k][2]].nodeType = "Leaf"
          /\ NElements(nodes, unresolvedPairs[k][1]) >= 8
          /\ ClassifyPair(nodes, unresolvedPairs[k], sepCoeff) = "inadmissible"

\* ------------------------------------------------------------------------
\* The trials of the line search
\* ------------------------------------------------------------------------

\* The positions at entry moved by delta d along the negative gradient.
EntryMinusStep(d) ==
    [v \in Vertices |->
        <<EntryPositions[v][1] - d * gradient[v][1],
          EntryPositions[v][2] - d * gradient[v][2],
          EntryPositions[v][3] - d * gradient[v][3]>>]

ConstantVector(n, c) == [f \in 0 .. n - 1 |-> c]

\* v is a constant vector.
IsConstant(v) == \A f, g \in DOMAIN v : v[f] = v[g]

C28_ConstantVectorsMapToZero ==
    \A k \in DOMAIN mulIn :
        IsConstant(mulIn[k]) =>
            LET zero == ConstantVector(Len(mesh), 0)
            IN  /\ MultiplyAdmissiblePercolated(nodes, admissibleByCluster,
                                                Af_1, mulIn[k], zero) = zero
                /\ \A i \in DOMAIN inadmissiblePairs : \A f \in Faces(mesh) :
                      AfFullProduct(nodes, mesh, inadmissiblePairs[i], mulIn[k], f) = 0
                /\ mulOut[k] = zero

\* A constant vector other than zero was multiplied by an operator with
\* admissible and inadmissible pairs, and Af_1 is not constant.
C28_Witness ==
    /\ \E k \in DOMAIN mulIn : IsConstant(mulIn[k]) /\ mulIn[k][0] = -1
    /\ \E k \in DOMAIN mulIn : IsConstant(mulIn[k]) /\ mulIn[k][0] = 1
    /\ admissiblePairs # <<>>
    /\ inadmissiblePairs # <<>>
    /\ ~IsConstant(Af_1)

====
